---- MODULE Spec2Model ----
(***************************************************************************)
(* Model of the ms-files server: the FileService facade (path resolver,    *)
(* listFiles, uploadFile, downloadFile) over the remote drive API, the     *)
(* tool front-end, and the HTTP + server-sent-events front-end.            *)
(*                                                                         *)
(* Strings are sequences of one-character strings, so that split,          *)
(* startsWith, toLowerCase and URL encoding are computed as the code       *)
(* computes them.  An optional value is <<>> (undefined) or <<v>>.         *)
(***************************************************************************)
EXTENDS Integers, Sequences, FiniteSets, TLC

VARIABLES
    now,        \* Date.now(): the clock the client identifiers are derived from
    clients,    \* SseServer.clients: Map clientId -> connection
    conns,      \* push connections: state, identifier, messages received
    files,      \* fileHandlers.ts `files`: the in-memory item table
    bcasts,     \* history of sendEventToAll calls
    resp,       \* the last HTTP request handled and its response
    fout,       \* the last direct facade / tool invocation and its outcome
    lst,        \* a paginated listing in progress (caller's loop + remote)
    srv         \* SseServer.server and the promise of start()

vars == <<now, clients, conns, files, bcasts, resp, fout, lst, srv>>

(***************************************************************************)
(* Bounds of the model.                                                    *)
(***************************************************************************)
MaxPathLen == 4
MaxClock == 1
MaxConns == 2
MaxBcasts == 2
MaxFailAt == 2
MaxPageSize == 3
MaxListCalls == 4
MaxAttempts == 3

(***************************************************************************)
(* JavaScript values.                                                      *)
(***************************************************************************)
Undefined == <<>>
Some(v) == <<v>>
\* JS truthiness of an optional string: defined and not ''.
Truthy(o) == o # <<>> /\ o[1] # <<>>
\* JS truthiness of an optional enumerated value (a TLA+ string).
TruthyAtom(o) == o # <<>> /\ o[1] # ""

Range(f) == {f[x] : x \in DOMAIN f}

StringsUpTo(alphabet, n) == UNION {[1..k -> alphabet] : k \in 0..n}

\* String.prototype.split(sep) for a one-character separator:
\* ''.split('/') = [''],  'a/'.split('/') = ['a', ''].
RECURSIVE SplitFrom(_, _, _, _, _)
SplitFrom(s, sep, i, cur, acc) ==
    IF i > Len(s) THEN Append(acc, cur)
    ELSE IF s[i] = sep THEN SplitFrom(s, sep, i + 1, <<>>, Append(acc, cur))
    ELSE SplitFrom(s, sep, i + 1, Append(cur, s[i]), acc)

Split(s, sep) == SplitFrom(s, sep, 1, <<>>, <<>>)

\* Array.prototype.filter(Boolean) on an array of strings: drops ''.
FilterBoolean(parts) == SelectSeq(parts, LAMBDA x : x # <<>>)

\* A mutant of SplitFolders: the empty segments are kept.
SplitFoldersKeepEmpty(folderPath) == Split(folderPath, "/")

\* folderPath.split('/').filter(Boolean)
SplitFolders(folderPath) == FilterBoolean(Split(folderPath, "/"))

RECURSIVE Join(_, _)
Join(parts, sep) ==
    IF parts = <<>> THEN <<>>
    ELSE IF Len(parts) = 1 THEN parts[1]
    ELSE parts[1] \o <<sep>> \o Join(Tail(parts), sep)

(***************************************************************************)
(* The remote drive (external collaborator): a fixed folder tree.          *)
(* Folder F1 holds two folders named b, so that a children query can       *)
(* return several matches; the root holds a file named ab.                 *)
(***************************************************************************)
Item(id, name, isFolder) == [id |-> id, name |-> name, folder |-> isFolder]

Root == <<"r", "o", "o", "t">>
F1 == <<"F", "1">>
F2 == <<"F", "2">>
F3 == <<"F", "3">>
F4 == <<"F", "4">>
F5 == <<"F", "5">>
D1 == <<"D", "1">>
N1 == <<"N", "1">>

\* The children of each folder, in the store's own (unsorted) order.
Drive ==
    [p \in {Root, F1, F2, F3, F4, F5} |->
        CASE p = Root -> << Item(F2, <<"b">>, TRUE),
                            Item(F1, <<"a">>, TRUE),
                            Item(D1, <<"a", "b">>, FALSE) >>
          [] p = F1   -> << Item(F3, <<"b">>, TRUE),
                            Item(F4, <<"b">>, TRUE) >>
          [] p = F3   -> << Item(F5, <<"a">>, TRUE) >>
          [] OTHER    -> << >>]

\* GET /me/drive/items/{parent}/children?$filter=name eq '{name}' and folder ne null&$select=id
ChildFolders(parent, name) ==
    SelectSeq(Drive[parent], LAMBDA it : it.name = name /\ it.folder)

ChildrenQuery(parent, name) == [op |-> "children", parent |-> parent, name |-> name]

(***************************************************************************)
(* FileService.resolveFolderId.  failAt is the index of the remote call    *)
(* that throws (a transport failure), 0 for none.                          *)
(***************************************************************************)
ResolveNotFound(folderPath, folder, calls) ==
    [ok |-> FALSE, calls |-> calls,
     msg |-> <<"Failed to resolve folder path", folderPath,
               "Folder not found in path", folder, folderPath>>]

ResolveThrew(folderPath, calls) ==
    [ok |-> FALSE, calls |-> calls,
     msg |-> <<"Failed to resolve folder path", folderPath, "remote error">>]

ResolveDone(currentId, calls) ==
    [ok |-> TRUE, calls |-> calls,
     id |-> IF currentId = Root THEN Undefined ELSE Some(currentId)]

\* A mutant of ResolveLoop: a segment without a match is skipped.
RECURSIVE ResolveLoopSkipMissing(_, _, _, _, _, _)
ResolveLoopSkipMissing(folderPath, folders, k, currentId, calls, failAt) ==
    IF k > Len(folders) THEN ResolveDone(currentId, calls)
    ELSE IF failAt = Len(calls) + 1
    THEN ResolveThrew(folderPath, Append(calls, ChildrenQuery(currentId, folders[k])))
    ELSE ResolveLoopSkipMissing(folderPath, folders, k + 1,
             IF Len(ChildFolders(currentId, folders[k])) = 0 THEN currentId
             ELSE ChildFolders(currentId, folders[k])[1].id,
             Append(calls, ChildrenQuery(currentId, folders[k])), failAt)

\* A mutant of ResolveLoop: of several matches the last one is taken.
RECURSIVE ResolveLoopLastMatch(_, _, _, _, _, _)
ResolveLoopLastMatch(folderPath, folders, k, currentId, calls, failAt) ==
    IF k > Len(folders) THEN ResolveDone(currentId, calls)
    ELSE IF failAt = Len(calls) + 1
    THEN ResolveThrew(folderPath, Append(calls, ChildrenQuery(currentId, folders[k])))
    ELSE IF Len(ChildFolders(currentId, folders[k])) = 0
    THEN ResolveNotFound(folderPath, folders[k],
                         Append(calls, ChildrenQuery(currentId, folders[k])))
    ELSE ResolveLoopLastMatch(folderPath, folders, k + 1,
             ChildFolders(currentId, folders[k])[Len(ChildFolders(currentId, folders[k]))].id,
             Append(calls, ChildrenQuery(currentId, folders[k])), failAt)

\* The for loop of resolveFolderId, from segment k on.
RECURSIVE ResolveLoop(_, _, _, _, _, _)
ResolveLoop(folderPath, folders, k, currentId, calls, failAt) ==
    IF k > Len(folders) THEN ResolveDone(currentId, calls)
    ELSE IF failAt = Len(calls) + 1
    THEN ResolveThrew(folderPath, Append(calls, ChildrenQuery(currentId, folders[k])))
    ELSE IF Len(ChildFolders(currentId, folders[k])) = 0
    THEN ResolveNotFound(folderPath, folders[k],
                         Append(calls, ChildrenQuery(currentId, folders[k])))
    ELSE ResolveLoop(folderPath, folders, k + 1,
                     ChildFolders(currentId, folders[k])[1].id,
                     Append(calls, ChildrenQuery(currentId, folders[k])), failAt)

\* A mutant of resolveFolderId: no short-circuit, the root is looked up remotely.
resolveFolderIdQueriesRoot(folderPathOpt, failAt) ==
    IF ~Truthy(folderPathOpt)
    THEN [ok |-> TRUE, id |-> Some(Root), calls |-> <<ChildrenQuery(Root, <<>>)>>]
    ELSE ResolveLoop(folderPathOpt[1], SplitFolders(folderPathOpt[1]), 1, Root,
                     <<>>, failAt)

resolveFolderId(folderPathOpt, failAt) ==
    IF ~Truthy(folderPathOpt)
    THEN [ok |-> TRUE, id |-> Undefined, calls |-> <<>>]
    ELSE ResolveLoop(folderPathOpt[1], SplitFolders(folderPathOpt[1]), 1, Root,
                     <<>>, failAt)

\* const parentFolderId = parentFolderName ? await this.resolveFolderId(..) : undefined
ResolveParent(parentFolderName, failAt) ==
    IF Truthy(parentFolderName) THEN resolveFolderId(parentFolderName, failAt)
    ELSE [ok |-> TRUE, id |-> Undefined, calls |-> <<>>]

(***************************************************************************)
(* Local file system and encodings used by uploadFile.                     *)
(***************************************************************************)
Cwd == <<"/">>

\* The local disk: /f holds one byte, /e is an empty file, nothing else exists.
Disk ==
    [p \in {<<"/", "f">>, <<"/", "e">>} |->
        IF p = <<"/", "f">> THEN <<65>> ELSE <<>>]

\* path.resolve(filePath) for paths without '.' and '..' segments.
PathResolve(p) ==
    IF p # <<>> /\ p[1] = "/" THEN p
    ELSE IF Cwd = <<"/">> THEN Cwd \o p ELSE Cwd \o <<"/">> \o p

\* path.basename(p): the last non-empty segment, '' when there is none.
Basename(p) ==
    LET segs == FilterBoolean(Split(p, "/"))
    IN IF segs = <<>> THEN <<>> ELSE segs[Len(segs)]

B64Alphabet ==
    << "A","B","C","D","E","F","G","H","I","J","K","L","M","N","O","P",
       "Q","R","S","T","U","V","W","X","Y","Z","a","b","c","d","e","f",
       "g","h","i","j","k","l","m","n","o","p","q","r","s","t","u","v",
       "w","x","y","z","0","1","2","3","4","5","6","7","8","9","+","/" >>

B64Value(c) == (CHOOSE i \in 1..Len(B64Alphabet) : B64Alphabet[i] = c) - 1

IsB64Char(c) == \E i \in 1..Len(B64Alphabet) : B64Alphabet[i] = c

\* Buffer.toString('base64'): three bytes give four characters, '=' pads.
RECURSIVE Base64Encode(_)
Base64Encode(bytes) ==
    IF bytes = <<>> THEN <<>>
    ELSE LET n == Len(bytes)
             b1 == bytes[1]
             b2 == IF n >= 2 THEN bytes[2] ELSE 0
             b3 == IF n >= 3 THEN bytes[3] ELSE 0
             c1 == B64Alphabet[(b1 \div 4) + 1]
             c2 == B64Alphabet[((b1 % 4) * 16 + (b2 \div 16)) + 1]
             c3 == B64Alphabet[((b2 % 16) * 4 + (b3 \div 64)) + 1]
             c4 == B64Alphabet[(b3 % 64) + 1]
         IN IF n = 1 THEN <<c1, c2, "=", "=">>
            ELSE IF n = 2 THEN <<c1, c2, c3, "=">>
            ELSE <<c1, c2, c3, c4>> \o Base64Encode(SubSeq(bytes, 4, n))

\* The characters Buffer.from(s, 'base64') decodes: those before the first '=',
\* the characters outside the alphabet skipped.
RECURSIVE B64Payload(_)
B64Payload(s) ==
    IF s = <<>> \/ s[1] = "=" THEN <<>>
    ELSE IF IsB64Char(s[1]) THEN <<s[1]>> \o B64Payload(Tail(s))
    ELSE B64Payload(Tail(s))

RECURSIVE B64DecodeGroups(_)
B64DecodeGroups(cs) ==
    LET n == Len(cs)
        v(i) == IF i <= n THEN B64Value(cs[i]) ELSE 0
        o1 == v(1) * 4 + (v(2) \div 16)
        o2 == (v(2) % 16) * 16 + (v(3) \div 4)
        o3 == (v(3) % 4) * 64 + v(4)
    IN IF n < 2 THEN <<>>
       ELSE IF n = 2 THEN <<o1>>
       ELSE IF n = 3 THEN <<o1, o2>>
       ELSE <<o1, o2, o3>> \o B64DecodeGroups(SubSeq(cs, 5, n))

\* Buffer.from(s, 'base64')
Base64Decode(s) == B64DecodeGroups(B64Payload(s))

\* encodeURIComponent: A-Z a-z 0-9 - _ . ! ~ * ' ( ) pass, the rest is escaped.
UriEscapes ==
    [c \in {"/", " ", "%", "=", "&", "?", "+", "$"} |->
        CASE c = "/" -> <<"%", "2", "F">>
          [] c = " " -> <<"%", "2", "0">>
          [] c = "%" -> <<"%", "2", "5">>
          [] c = "=" -> <<"%", "3", "D">>
          [] c = "&" -> <<"%", "2", "6">>
          [] c = "?" -> <<"%", "3", "F">>
          [] c = "+" -> <<"%", "2", "B">>
          [] c = "$" -> <<"%", "2", "4">>]

RECURSIVE encodeURIComponent(_)
encodeURIComponent(s) ==
    IF s = <<>> THEN <<>>
    ELSE (IF s[1] \in DOMAIN UriEscapes THEN UriEscapes[s[1]] ELSE <<s[1]>>)
         \o encodeURIComponent(Tail(s))

(***************************************************************************)
(* FileService.readFileAsBase64 and FileService.uploadFile.                *)
(***************************************************************************)
ReadAt(absolutePath) ==
    IF absolutePath \in DOMAIN Disk
    THEN [ok |-> TRUE,
          content |-> Base64Encode(Disk[absolutePath]),
          fileName |-> Basename(absolutePath)]
    ELSE [ok |-> FALSE, msg |-> <<"Failed to read file", "ENOENT">>]

readFileAsBase64(filePath) == ReadAt(PathResolve(filePath))

\* The remote's answer to a successful content PUT.
PutResponse(name, buffer) ==
    [id |-> N1, name |-> name, size |-> Len(buffer),
     webUrl |-> <<"u">>, mimeType |-> "application/octet-stream"]

UploadFailure(msg, calls) ==
    [ok |-> FALSE, msg |-> <<"Failed to upload file">> \o msg, calls |-> calls]

\* conflictBehavior = 'rename' in the destructuring of the input
ConflictBehaviorOf(input) ==
    IF input.conflictBehavior = Undefined THEN "rename" ELSE input.conflictBehavior[1]

\* PUT {uploadUrl}?@microsoft.graph.conflictBehavior=..  with the decoded buffer
PutCall(parentFolderId, finalFileName, conflictBehavior, buffer) ==
    [op |-> "put",
     parent |-> IF Truthy(parentFolderId) THEN parentFolderId ELSE Undefined,
     name |-> encodeURIComponent(finalFileName),
     conflictBehavior |-> conflictBehavior,
     body |-> buffer]

\* The PUT and the value built from its response.
UploadSend(finalFileName, buffer, calls, failAt) ==
    IF failAt = Len(calls) THEN UploadFailure(<<"remote error">>, calls)
    ELSE [ok |-> TRUE, value |-> PutResponse(finalFileName, buffer), calls |-> calls]

\* A mutant of UploadPut: a folder that does not resolve is replaced by the root.
UploadPutIgnoringResolve(input, finalFileName, finalFileContent, failAt, r) ==
    UploadSend(finalFileName, Base64Decode(finalFileContent),
               Append(r.calls,
                      PutCall(IF r.ok THEN r.id ELSE Undefined, finalFileName,
                              ConflictBehaviorOf(input),
                              Base64Decode(finalFileContent))),
               failAt)

\* uploadFile after the folder resolution r.
UploadPut(input, finalFileName, finalFileContent, failAt, r) ==
    IF ~r.ok THEN UploadFailure(r.msg, r.calls)
    ELSE UploadSend(finalFileName, Base64Decode(finalFileContent),
                    Append(r.calls,
                           PutCall(r.id, finalFileName, ConflictBehaviorOf(input),
                                   Base64Decode(finalFileContent))),
                    failAt)

\* A mutant of uploadAfterRead: a missing name or content is replaced, not refused.
uploadAfterReadUnchecked(input, finalFileName, finalFileContent, failAt) ==
    UploadPut(input,
              IF Truthy(finalFileName) THEN finalFileName[1] ELSE <<"x">>,
              IF Truthy(finalFileContent) THEN finalFileContent[1] ELSE <<"A", "A">>,
              failAt, ResolveParent(input.parentFolderName, failAt))

\* uploadFile from "Ensure we have both file name and content" on.
uploadAfterRead(input, finalFileName, finalFileContent, failAt) ==
    IF ~Truthy(finalFileName)
    THEN UploadFailure(<<"File name is required when filePath is not provided">>, <<>>)
    ELSE IF ~Truthy(finalFileContent)
    THEN UploadFailure(<<"File content is required when filePath is not provided">>, <<>>)
    ELSE UploadPut(input, finalFileName[1], finalFileContent[1], failAt,
                   ResolveParent(input.parentFolderName, failAt))

\* A read whose content yields to the caller's fileContent.
UploadReadPreferContent(input, failAt, rd) ==
    IF ~rd.ok THEN UploadFailure(rd.msg, <<>>)
    ELSE uploadAfterRead(input,
                         IF Truthy(input.fileName) THEN input.fileName
                         ELSE Some(rd.fileName),
                         IF Truthy(input.fileContent) THEN input.fileContent
                         ELSE Some(rd.content),
                         failAt)

\* uploadFile after the read rd of the local file.
UploadRead(input, failAt, rd) ==
    IF ~rd.ok THEN UploadFailure(rd.msg, <<>>)
    ELSE uploadAfterRead(input,
                         IF Truthy(input.fileName) THEN input.fileName
                         ELSE Some(rd.fileName),
                         Some(rd.content), failAt)

uploadFile(input, failAt) ==
    IF Truthy(input.filePath)
    THEN UploadRead(input, failAt, readFileAsBase64(input.filePath[1]))
    ELSE uploadAfterRead(input, input.fileName, input.fileContent, failAt)

(***************************************************************************)
(* The remote's paginated children listing and its continuation links.     *)
(***************************************************************************)
AsciiOrder ==
    << " ", "$", "%", "&", "+", "/",
       "0", "1", "2", "3", "4", "5", "6", "7", "8", "9", "=", "?",
       "A", "B", "C", "D", "E", "F", "N", "a", "b", "c", "k", "p" >>

CharCode(c) == CHOOSE i \in 1..Len(AsciiOrder) : AsciiOrder[i] = c

RECURSIVE NameLess(_, _)
NameLess(x, y) ==
    IF y = <<>> THEN FALSE
    ELSE IF x = <<>> THEN TRUE
    ELSE IF x[1] # y[1] THEN CharCode(x[1]) < CharCode(y[1])
    ELSE NameLess(Tail(x), Tail(y))

\* Stable insertion of an item into a list sorted by name.
RECURSIVE InsertByName(_, _)
InsertByName(it, sorted) ==
    IF sorted = <<>> THEN <<it>>
    ELSE IF NameLess(it.name, sorted[1].name) THEN <<it>> \o sorted
    ELSE <<sorted[1]>> \o InsertByName(it, Tail(sorted))

RECURSIVE SortByName(_)
SortByName(items) ==
    IF items = <<>> THEN <<>>
    ELSE InsertByName(items[Len(items)], SortByName(SubSeq(items, 1, Len(items) - 1)))

Digits == <<"0", "1", "2", "3", "4", "5", "6", "7", "8", "9">>

\* The opaque cursor the remote issues for "continue after k items".  The
\* remote chooses its form: URL-safe characters only ("plain"), or with
\* characters a URL must escape ("reserved").
SkipTokenFor(k, style) ==
    IF style # "reserved" THEN <<"k", Digits[k + 1]>>
    ELSE <<"p", "=", Digits[k + 1]>>

\* Percent-decoding of a query-string value ('+' is a space).
RECURSIVE FormDecode(_)
FormDecode(s) ==
    IF s = <<>> THEN <<>>
    ELSE IF s[1] = "%" /\ Len(s) >= 3
            /\ \E c \in DOMAIN UriEscapes : UriEscapes[c] = SubSeq(s, 1, 3)
    THEN <<CHOOSE c \in DOMAIN UriEscapes : UriEscapes[c] = SubSeq(s, 1, 3)>>
         \o FormDecode(SubSeq(s, 4, Len(s)))
    ELSE IF s[1] = "+" THEN <<" ">> \o FormDecode(Tail(s))
    ELSE <<s[1]>> \o FormDecode(Tail(s))

\* URLSearchParams.toString() applied to one value.
RECURSIVE FormEncode(_)
FormEncode(s) ==
    IF s = <<>> THEN <<>>
    ELSE (IF s[1] = " " THEN <<"+">>
          ELSE IF s[1] \in DOMAIN UriEscapes THEN UriEscapes[s[1]]
          ELSE <<s[1]>>)
         \o FormEncode(Tail(s))

SkipTokenParam == <<"$", "s", "k", "i", "p", "t", "o", "k", "e", "n", "=">>

\* The @odata.nextLink of a page: the cursor is embedded URL-escaped.
NextLinkFor(token) ==
    <<"u", "?", "$", "t", "o", "p", "&">> \o SkipTokenParam \o encodeURIComponent(token)

\* The offset a cursor stands for, n + 1 when the remote did not issue it.
OffsetOf(sent, n, style) ==
    IF \E k \in 0..n : SkipTokenFor(k, style) = sent
    THEN CHOOSE k \in 0..n : SkipTokenFor(k, style) = sent
    ELSE n + 1

MinOf2(a, b) == IF a < b THEN a ELSE b

RemotePage(all, offset, last, style) ==
    [ok |-> TRUE,
     value |-> SubSeq(all, offset + 1, last),
     nextLink |-> IF last < Len(all) THEN Some(NextLinkFor(SkipTokenFor(last, style)))
                  ELSE Undefined]

RemotePageAt(all, top, offset, style, onBad) ==
    IF offset > Len(all)
    THEN IF onBad = "error" THEN [ok |-> FALSE, msg |-> <<"invalidRequest">>]
         ELSE RemotePage(all, 0, MinOf2(top, Len(all)), style)
    ELSE RemotePage(all, offset, MinOf2(offset + top, Len(all)), style)

\* The remote rejects a $top that is not a positive number.  A "sparse"
\* remote answers the first request of a listing with an empty page that
\* carries a nextLink (server-driven paging does not promise a full page).
RemoteListOf(all, call, style, onBad) ==
    IF call.top <= 0 THEN [ok |-> FALSE, msg |-> <<"invalidRequest">>]
    ELSE IF style = "sparse" /\ call.skiptoken = Undefined
    THEN [ok |-> TRUE, value |-> <<>>,
          nextLink |-> Some(NextLinkFor(SkipTokenFor(0, style)))]
    ELSE
    RemotePageAt(all, call.top,
                 IF call.skiptoken = Undefined THEN 0
                 ELSE OffsetOf(FormDecode(call.skiptoken[1]), Len(all), style),
                 style, onBad)

\* GET {parent}/children?$top=..&$orderby=name[&$skiptoken=..] as the remote
\* answers it.  onBad is what the remote does with a cursor it did not issue:
\* "error" rejects the request, "first" ignores the cursor.
RemoteList(call, style, onBad) ==
    IF call.parent \notin DOMAIN Drive THEN [ok |-> FALSE, msg |-> <<"itemNotFound">>]
    ELSE RemoteListOf(IF call.orderby = "name" THEN SortByName(Drive[call.parent])
                      ELSE Drive[call.parent],
                      call, style, onBad)

(***************************************************************************)
(* FileService.listFiles.                                                  *)
(***************************************************************************)
DefaultPageSize == 100

IsPrefixAt(s, i, pre) ==
    i + Len(pre) - 1 <= Len(s) /\ SubSeq(s, i, i + Len(pre) - 1) = pre

RECURSIVE TakeUntilAmp(_, _)
TakeUntilAmp(s, i) ==
    IF i > Len(s) \/ s[i] = "&" THEN <<>>
    ELSE <<s[i]>> \o TakeUntilAmp(s, i + 1)

\* nextLink.match(/[&?]\$skiptoken=([^&]+)/)?.[1]
RECURSIVE MatchSkipTokenFrom(_, _)
MatchSkipTokenFrom(link, i) ==
    IF i > Len(link) THEN Undefined
    ELSE IF link[i] \in {"&", "?"} /\ IsPrefixAt(link, i + 1, SkipTokenParam)
            /\ TakeUntilAmp(link, i + 1 + Len(SkipTokenParam)) # <<>>
    THEN Some(TakeUntilAmp(link, i + 1 + Len(SkipTokenParam)))
    ELSE MatchSkipTokenFrom(link, i + 1)

MatchSkipToken(linkOpt) ==
    IF linkOpt = Undefined THEN Undefined ELSE MatchSkipTokenFrom(linkOpt[1], 1)

\* GET {url}?{params} of listFiles
ListCall(input) ==
    [op |-> "list",
     parent |-> IF Truthy(input.folderId) THEN input.folderId[1] ELSE Root,
     top |-> IF input.pageSize = Undefined THEN DefaultPageSize ELSE input.pageSize[1],
     orderby |-> "name",
     skiptoken |-> IF Truthy(input.nextPageToken)
                   THEN Some(FormEncode(input.nextPageToken[1]))
                   ELSE Undefined]

\* listFiles after the remote's response.
ListResult(call, response) ==
    IF ~response.ok
    THEN [ok |-> FALSE, msg |-> <<"Failed to list files">> \o response.msg,
          calls |-> <<call>>]
    ELSE [ok |-> TRUE,
          items |-> response.value,
          nextPageToken |-> MatchSkipToken(response.nextLink),
          calls |-> <<call>>]

ListGet(call, style, onBad, failAt) ==
    ListResult(call, IF failAt = 1 THEN [ok |-> FALSE, msg |-> <<"remote error">>]
                     ELSE RemoteList(call, style, onBad))

listFiles(input, style, onBad, failAt) == ListGet(ListCall(input), style, onBad, failAt)

(***************************************************************************)
(* FileService.downloadFile, addressed by file name under a parent path.   *)
(***************************************************************************)
\* The bytes of the remote's files.
DriveContent == [id \in {D1} |-> <<66, 67>>]

RECURSIVE LastIndexOf(_, _, _)
LastIndexOf(s, c, i) ==
    IF i = 0 THEN 0 ELSE IF s[i] = c THEN i ELSE LastIndexOf(s, c, i - 1)

\* path.extname(p): from the last '.' of the basename, '' when it has none
\* or only a leading one.
Extname(p) ==
    LET base == Basename(p)
        dot == LastIndexOf(base, ".", Len(base))
    IN IF dot <= 1 THEN <<>> ELSE SubSeq(base, dot, Len(base))

\* path.join(a, b) for non-empty a, without '.' and '..' segments.
PathJoin(a, b) ==
    LET segs == FilterBoolean(Split(a \o <<"/">> \o b, "/"))
    IN (IF a[1] = "/" THEN <<"/">> ELSE <<>>) \o Join(segs, "/")

\* path.dirname(p)
Dirname(p) ==
    LET segs == FilterBoolean(Split(p, "/"))
        abs == p # <<>> /\ p[1] = "/"
    IN IF Len(segs) <= 1 THEN (IF abs THEN <<"/">> ELSE <<".">>)
       ELSE (IF abs THEN <<"/">> ELSE <<>>)
            \o Join(SubSeq(segs, 1, Len(segs) - 1), "/")

\* GET /me/drive/root:/{name} or /me/drive/items/{parent}:/{name}
ChildByName(parentOpt, encodedName) ==
    LET parent == IF parentOpt = Undefined THEN Root ELSE parentOpt[1]
    IN SelectSeq(Drive[parent], LAMBDA it : it.name = FormDecode(encodedName))

StrUndefined == <<"u", "n", "d", "e", "f", "i", "n", "e", "d">>

DownloadFailure(fileName, msg, calls) ==
    [ok |-> FALSE, msg |-> <<"Failed to download file", fileName>> \o msg,
     calls |-> calls, fsOps |-> <<>>]

\* A saved download that also returns the content.
DownloadSavedWithContent(fileMetadata, finalPath, calls) ==
    [ok |-> TRUE,
     value |-> [fileName |-> fileMetadata.name,
                mimeType |-> "application/octet-stream",
                filePath |-> Some(finalPath),
                content |-> Some(Base64Encode(DriveContent[fileMetadata.id]))],
     calls |-> calls,
     fsOps |-> << [op |-> "mkdir", path |-> Dirname(finalPath), recursive |-> TRUE],
                  [op |-> "writeFile", path |-> finalPath,
                   data |-> DriveContent[fileMetadata.id]] >>]

\* The value returned when the content was saved under finalPath.
DownloadSaved(fileMetadata, finalPath, calls) ==
    [ok |-> TRUE,
     value |-> [fileName |-> fileMetadata.name,
                mimeType |-> "application/octet-stream",
                filePath |-> Some(PathResolve(finalPath)),
                content |-> Undefined],
     calls |-> calls,
     fsOps |-> << [op |-> "mkdir", path |-> Dirname(finalPath), recursive |-> TRUE],
                  [op |-> "writeFile", path |-> finalPath,
                   data |-> DriveContent[fileMetadata.id]] >>]

\* The value returned when no output path was given.
DownloadInline(fileMetadata, calls) ==
    [ok |-> TRUE,
     value |-> [fileName |-> fileMetadata.name,
                mimeType |-> "application/octet-stream",
                filePath |-> Undefined,
                content |-> Some(Base64Encode(DriveContent[fileMetadata.id]))],
     calls |-> calls,
     fsOps |-> <<>>]

\* A save that takes every output path for a directory.
DownloadContentAlwaysJoin(input, fileName, fileMetadata, calls, failAt) ==
    IF failAt = Len(calls) THEN DownloadFailure(fileName, <<"remote error">>, calls)
    ELSE IF Truthy(input.outputPath)
    THEN DownloadSaved(fileMetadata, PathJoin(input.outputPath[1], fileMetadata.name),
                       calls)
    ELSE DownloadInline(fileMetadata, calls)

\* downloadFile after the metadata was found: the content request and the save.
DownloadContent(input, fileName, fileMetadata, calls, failAt) ==
    IF failAt = Len(calls) THEN DownloadFailure(fileName, <<"remote error">>, calls)
    ELSE IF Truthy(input.outputPath)
    THEN DownloadSaved(fileMetadata,
                       IF Extname(input.outputPath[1]) = <<>>
                       THEN PathJoin(input.outputPath[1], fileMetadata.name)
                       ELSE input.outputPath[1],
                       calls)
    ELSE DownloadInline(fileMetadata, calls)

\* downloadFile after the metadata request.
DownloadFound(input, fileName, found, calls, failAt) ==
    IF failAt = Len(calls) THEN DownloadFailure(fileName, <<"remote error">>, calls)
    ELSE IF found = <<>> THEN DownloadFailure(fileName, <<"itemNotFound">>, calls)
    ELSE IF found[1].folder
    THEN DownloadFailure(fileName, <<"File not found", fileName>>, calls)
    ELSE DownloadContent(input, fileName, found[1],
                         Append(calls, [op |-> "content", id |-> found[1].id]), failAt)

\* GET /me/drive/root:/{name} or /me/drive/items/{parent}:/{name}
MetaCall(parentFolderId, fileName) ==
    [op |-> "getByPath",
     parent |-> IF Truthy(parentFolderId) THEN parentFolderId ELSE Undefined,
     name |-> encodeURIComponent(fileName)]

DownloadMeta(input, fileName, meta, calls, failAt) ==
    DownloadFound(input, fileName, ChildByName(meta.parent, meta.name),
                  Append(calls, meta), failAt)

\* downloadFile after the folder resolution r.
DownloadResolved(input, fileName, failAt, r) ==
    IF ~r.ok THEN DownloadFailure(fileName, r.msg, r.calls)
    ELSE DownloadMeta(input, fileName, MetaCall(r.id, fileName), r.calls, failAt)

\* `${undefined}` and encodeURIComponent(undefined) are 'undefined'
downloadFileByName(input, failAt) ==
    DownloadResolved(input,
                     IF input.fileName = Undefined THEN StrUndefined
                     ELSE input.fileName[1],
                     failAt, ResolveParent(input.parentFolderName, failAt))

(***************************************************************************)
(* authService.getAccessTokenFromHeader.                                   *)
(***************************************************************************)
LowerOf ==
    [c \in {"A", "B", "E", "R", "S", "I", "C"} |->
        CASE c = "A" -> "a" [] c = "B" -> "b" [] c = "E" -> "e" [] c = "R" -> "r"
          [] c = "S" -> "s" [] c = "I" -> "i" [] c = "C" -> "c"]

ToLowerCase(s) ==
    [i \in 1..Len(s) |-> IF s[i] \in DOMAIN LowerOf THEN LowerOf[s[i]] ELSE s[i]]

StartsWith(s, pre) == IsPrefixAt(s, 1, pre)

EndsWith(s, suf) == Len(suf) <= Len(s) /\ IsPrefixAt(s, Len(s) - Len(suf) + 1, suf)

BearerPrefix == <<"b", "e", "a", "r", "e", "r", " ">>

getAccessTokenFromHeader(authorization) ==
    LET authHeader == IF Truthy(authorization) THEN authorization[1] ELSE <<>>
        parts == Split(authHeader, " ")
    IN IF ~StartsWith(ToLowerCase(authHeader), BearerPrefix) THEN Undefined
       ELSE IF Len(parts) < 2 \/ parts[2] = <<>> THEN Undefined
       ELSE Some(parts[2])

(***************************************************************************)
(* SseServer: the client registry and the push channels.                   *)
(* clients is the Map as a set of <<clientId, connection>> pairs with one  *)
(* pair per clientId; the clock only moves forward, so insertion order is  *)
(* clientId order.                                                         *)
(***************************************************************************)
Conns == 1..MaxConns

MapSet(map, key, value) == {p \in map : p[1] # key} \cup {<<key, value>>}

MapDelete(map, key) == {p \in map : p[1] # key}

MapKeys(map) == {p[1] : p \in map}

MapValues(map) == {p[2] : p \in map}

MapGet(map, key) == (CHOOSE p \in map : p[1] = key)[2]

MinOf(S) == CHOOSE x \in S : \A y \in S : x <= y

\* clientRes.write(data): the write is recorded on the channel; it throws when
\* the channel is broken, and then nothing is delivered.
Write(cn, c, msg) ==
    [cn EXCEPT ![c].log = Append(@, [msg |-> msg, ok |-> ~cn[c].broken])]

WriteThrows(cn, c) == cn[c].broken

\* SseServer.sendEvent: two writes inside one try block.
sendEvent(cn, c, type, data) ==
    IF WriteThrows(cn, c)
    THEN Write(cn, c, [line |-> "event", type |-> type])
    ELSE Write(Write(cn, c, [line |-> "event", type |-> type]),
               c, [line |-> "data", type |-> type, data |-> data])

\* A mutant of SendLoop: no try/catch around the write, the first failing
\* write ends the loop and the exception reaches the caller.
RECURSIVE SendLoopNoCatch(_, _, _, _)
SendLoopNoCatch(keys, data, cl, cn) ==
    IF keys = {} THEN [clients |-> cl, conns |-> cn, threw |-> FALSE]
    ELSE LET clientId == MinOf(keys)
             clientRes == MapGet(cl, clientId)
         IN IF WriteThrows(cn, clientRes)
            THEN [clients |-> cl, conns |-> Write(cn, clientRes, data), threw |-> TRUE]
            ELSE SendLoopNoCatch(keys \ {clientId}, data, cl, Write(cn, clientRes, data))

\* A mutant of SendLoop: only the first registered client is written to.
SendLoopFirstOnly(keys, data, cl, cn) ==
    IF keys = {} THEN [clients |-> cl, conns |-> cn, threw |-> FALSE]
    ELSE LET clientId == MinOf(keys)
             clientRes == MapGet(cl, clientId)
         IN [clients |-> IF WriteThrows(cn, clientRes) THEN MapDelete(cl, clientId)
                         ELSE cl,
             conns |-> Write(cn, clientRes, data), threw |-> FALSE]

\* this.clients.forEach(...) of sendEventToAll, over the keys not yet visited.
RECURSIVE SendLoop(_, _, _, _)
SendLoop(keys, data, cl, cn) ==
    IF keys = {} THEN [clients |-> cl, conns |-> cn, threw |-> FALSE]
    ELSE LET clientId == MinOf(keys)
             clientRes == MapGet(cl, clientId)
         IN SendLoop(keys \ {clientId}, data,
                     IF WriteThrows(cn, clientRes) THEN MapDelete(cl, clientId) ELSE cl,
                     Write(cn, clientRes, data))

\* SseServer.sendEventToAll; seq numbers the broadcasts (history only).
sendEventToAll(event, seq, cl, cn) ==
    SendLoop(MapKeys(cl), [line |-> "data", event |-> event, seq |-> seq], cl, cn)

(***************************************************************************)
(* fileHandlers.ts: the HTTP handlers.  A handler's outcome is the         *)
(* response it writes, the facade and remote calls it made, the event it   *)
(* passes to sendEventToAll (if any), the item table it leaves, and the    *)
(* response its catch block writes should the broadcast throw.             *)
(* NODE_ENV is not 'development': JSON.stringify drops `details`.          *)
(***************************************************************************)
Body(kind, status, keys, data) ==
    [kind |-> kind, status |-> status, keys |-> keys, data |-> data]

Response(status, body) == [status |-> status, body |-> body]

\* res.writeHead(status, headers); res.end(body)
ResWrites(response) ==
    << [op |-> "writeHead", status |-> response.status], [op |-> "end"] >>

Outcome(response, calls, facade, event, table, caught) ==
    [status |-> response.status, body |-> response.body, calls |-> calls,
     facade |-> facade, event |-> event, files |-> table, caught |-> caught,
     writes |-> ResWrites(response)]

\* A response written without any facade call, remote call or event.
Reply(status, body, table) ==
    Outcome(Response(status, body), <<>>, 0, Undefined, table, Response(status, body))

BareError == Body("json", "none", {"error"}, Undefined)

StatusError == Body("json", "error", {"status", "error"}, Undefined)

SuccessBody(data) == Body("json", "success", {"status", "data", "metadata"}, Some(data))

MaxPageSizeHttp == 1000

\* The query schema without .positive().
ListQueryValidAnySign(query) ==
    query.pageSize = Undefined \/ query.pageSize[1] <= MaxPageSizeHttp

\* listFilesQuerySchema.safeParse(queryParams).success
ListQueryValid(query) ==
    query.pageSize = Undefined
    \/ (query.pageSize[1] > 0 /\ query.pageSize[1] <= MaxPageSizeHttp)

\* The `data` of the listing response.
ListData(pageSize, result) ==
    IF Len(result.items) = 0
    THEN [items |-> <<>>,
          pagination |-> [total_items |-> 0, page_size |-> pageSize,
                          has_more |-> FALSE, next_page_token |-> Undefined]]
    ELSE [items |-> [i \in 1..Len(result.items) |-> result.items[i].name],
          pagination |-> [total_items |-> Len(result.items), page_size |-> pageSize,
                          has_more |-> Truthy(result.nextPageToken),
                          next_page_token |-> result.nextPageToken]]

\* handleListFiles after the facade call.
ListRespond(pageSize, table, result) ==
    Outcome(IF result.ok THEN Response(200, SuccessBody(ListData(pageSize, result)))
            ELSE Response(500, StatusError),
            result.calls, 1, Undefined, table, Response(500, StatusError))

ListServe(token, query, pageSize, table, style, onBad, failAt) ==
    ListRespond(pageSize, table,
                listFiles([accessToken |-> token, folderId |-> query.folderId,
                           pageSize |-> Some(pageSize),
                           nextPageToken |-> query.nextPageToken],
                          style, onBad, failAt))

handleListFiles(req, table, style, onBad, failAt) ==
    LET token == getAccessTokenFromHeader(req.authorization)
    IN IF token = Undefined THEN Reply(401, BareError, table)
       ELSE IF ~ListQueryValid(req.query) THEN Reply(400, StatusError, table)
       ELSE ListServe(token[1], req.query,
                      IF req.query.pageSize = Undefined THEN DefaultPageSize
                      ELSE req.query.pageSize[1],
                      table, style, onBad, failAt)

\* `files` is a plain object: files[key] also finds the members it inherits
\* from Object.prototype, which are functions and so truthy.
KeyToString == <<"t", "o", "S", "t", "r", "i", "n", "g">>
KeyValueOf == <<"v", "a", "l", "u", "e", "O", "f">>
ObjectPrototypeKeys == {KeyToString, KeyValueOf}

\* !!files[key]
TableHas(table, key) == key \in DOMAIN table \/ key \in ObjectPrototypeKeys

\* req.url.split('/').pop()
LastSegment(url) == Split(url, "/")[Len(Split(url, "/"))]

\* A handleGetFile whose 404 branch does not return: the 200 response is
\* written after it.
handleGetFileNoReturn(req, table) ==
    LET token == getAccessTokenFromHeader(req.authorization)
    IN IF token = Undefined THEN Reply(401, BareError, table)
       ELSE IF LastSegment(req.url) = <<>> THEN Reply(400, BareError, table)
       ELSE IF ~TableHas(table, LastSegment(req.url))
       THEN [Reply(200, Body("empty", "none", {}, Undefined), table)
                EXCEPT !.writes = ResWrites(Response(404, BareError)) \o @]
       ELSE IF LastSegment(req.url) \notin DOMAIN table
       THEN Reply(200, Body("empty", "none", {}, Undefined), table)
       ELSE Reply(200, Body("json", "none", {"id"}, Some(table[LastSegment(req.url)])),
                  table)

handleGetFile(req, table) ==
    LET token == getAccessTokenFromHeader(req.authorization)
    IN IF token = Undefined THEN Reply(401, BareError, table)
       ELSE IF LastSegment(req.url) = <<>> THEN Reply(400, BareError, table)
       ELSE IF ~TableHas(table, LastSegment(req.url)) THEN Reply(404, BareError, table)
       \* JSON.stringify of an inherited function is undefined: the body is empty
       ELSE IF LastSegment(req.url) \notin DOMAIN table
       THEN Reply(200, Body("empty", "none", {}, Undefined), table)
       ELSE Reply(200, Body("json", "none", {"id"}, Some(table[LastSegment(req.url)])),
                  table)

\* handleUploadFile after the facade call: the event, then the 201 response.
UploadRespond(table, clock, result) ==
    IF result.ok
    THEN Outcome(Response(201, SuccessBody(result.value)), result.calls, 1,
                 Some([type |-> "file_created", data |-> result.value,
                       timestamp |-> clock]),
                 table, Response(500, StatusError))
    ELSE Outcome(Response(500, StatusError), result.calls, 1, Undefined, table,
                 Response(500, StatusError))

UploadServe(token, requestData, table, clock, failAt) ==
    UploadRespond(table, clock,
                  uploadFile([accessToken |-> token,
                              filePath |-> requestData.filePath,
                              fileName |-> requestData.fileName,
                              fileContent |-> Undefined,
                              parentFolderId |-> requestData.parentFolderId,
                              parentFolderName |-> requestData.parentFolderName,
                              conflictBehavior |->
                                  IF TruthyAtom(requestData.conflictBehavior)
                                  THEN requestData.conflictBehavior
                                  ELSE Some("rename")],
                             failAt))

handleUploadFile(req, table, clock, failAt) ==
    LET token == getAccessTokenFromHeader(req.authorization)
    IN IF token = Undefined THEN Reply(401, BareError, table)
       ELSE IF req.body.kind \in {"empty", "malformed"} THEN Reply(400, BareError, table)
       \* JSON.parse('null'): reading requestData.filePath throws a TypeError
       ELSE IF req.body.kind = "null" THEN Reply(500, StatusError, table)
       ELSE IF ~Truthy(req.body.obj.filePath) THEN Reply(400, BareError, table)
       ELSE UploadServe(token[1], req.body.obj, table, clock, failAt)

\* `delete files[fileId]` removes an own entry and leaves an inherited one.
handleDeleteFile(req, table, clock) ==
    LET token == getAccessTokenFromHeader(req.authorization)
    IN IF token = Undefined THEN Reply(401, BareError, table)
       ELSE IF LastSegment(req.url) = <<>> THEN Reply(400, BareError, table)
       ELSE IF ~TableHas(table, LastSegment(req.url)) THEN Reply(404, BareError, table)
       ELSE Outcome(Response(200, Body("json", "none", {"success", "message"}, Undefined)),
                    <<>>, 0,
                    Some([type |-> "file_deleted", data |-> [id |-> LastSegment(req.url)],
                          timestamp |-> clock]),
                    [k \in DOMAIN table \ {LastSegment(req.url)} |-> table[k]],
                    Response(500, BareError))

\* FileService.downloadFile as the class resolves it: of its two definitions
\* the later one (by file name) is the method.
downloadFile(input, failAt) == downloadFileByName(input, failAt)

\* handleDownloadFile after the facade call.
DownloadRespond(options, table, result) ==
    Outcome(IF ~result.ok THEN Response(500, StatusError)
            ELSE IF Truthy(options.outputPath)
            THEN Response(200, SuccessBody([fileName |-> result.value.fileName,
                                            filePath |-> result.value.filePath,
                                            mimeType |-> result.value.mimeType]))
            \* Buffer.byteLength(undefined) throws: the catch block answers
            ELSE IF result.value.content = Undefined THEN Response(500, StatusError)
            ELSE Response(200, Body("binary", "none", {},
                                    Some(Base64Decode(result.value.content[1])))),
            result.calls, 1, Undefined, table, Response(500, StatusError))

handleDownloadFile(req, options, table, failAt) ==
    LET token == getAccessTokenFromHeader(req.authorization)
    IN IF token = Undefined THEN Reply(401, StatusError, table)
       ELSE IF ~Truthy(options.fileId) THEN Reply(400, StatusError, table)
       ELSE DownloadRespond(options, table,
                downloadFile([accessToken |-> token[1],
                              fileId |-> options.fileId,
                              outputPath |-> options.outputPath,
                              fileName |-> IF Truthy(options.fileName)
                                           THEN options.fileName ELSE Undefined,
                              parentFolderName |-> Undefined],
                             failAt))

(***************************************************************************)
(* SseServer.handleRequest: the router (GET /events is SseConnect below).  *)
(***************************************************************************)
PathApiFiles == <<"/", "a", "p", "i", "/", "f", "i", "l", "e", "s">>
PathApiFilesSlash == <<"/", "a", "p", "i", "/", "f", "i", "l", "e", "s", "/">>
PathDownloadSuffix == <<"/", "d", "o", "w", "n", "l", "o", "a", "d">>

EmptyBody == Body("empty", "none", {}, Undefined)

\* The download route: the body is parsed, then the handler is called.
DownloadRoute(req, table, failAt) ==
    \* body ? JSON.parse(body) : {}
    IF req.body.kind = "malformed"
    THEN Reply(400, Body("json", "error", {"status", "error", "details"}, Undefined),
               table)
    ELSE handleDownloadFile(req,
             [fileId |-> Some(Split(req.url, "/")[4]),
              outputPath |-> IF req.body.kind = "object"
                             THEN req.body.obj.outputPath ELSE Undefined,
              fileName |-> IF req.body.kind = "object"
                           THEN req.body.obj.fileName ELSE Undefined],
             table, failAt)

handleRequest(req, table, clock, style, onBad, failAt) ==
    IF req.method = "OPTIONS" THEN Reply(200, EmptyBody, table)
    ELSE IF req.url = PathApiFiles /\ req.method = "GET"
    THEN handleListFiles(req, table, style, onBad, failAt)
    ELSE IF StartsWith(req.url, PathApiFilesSlash) /\ req.method = "GET"
    THEN handleGetFile(req, table)
    ELSE IF req.url = PathApiFiles /\ req.method = "POST"
    THEN handleUploadFile(req, table, clock, failAt)
    ELSE IF StartsWith(req.url, PathApiFilesSlash) /\ req.method = "DELETE"
    THEN handleDeleteFile(req, table, clock)
    ELSE IF StartsWith(req.url, PathApiFilesSlash)
            /\ EndsWith(req.url, PathDownloadSuffix) /\ req.method = "POST"
    THEN DownloadRoute(req, table, failAt)
    ELSE Reply(404, BareError, table)

(***************************************************************************)
(* The requests the model sends.                                           *)
(***************************************************************************)
HdrBearerT == Some(<<"B", "e", "a", "r", "e", "r", " ", "t">>)
HdrLowerBearerT == Some(<<"b", "e", "a", "r", "e", "r", " ", "t">>)
HdrBearerOnly == Some(<<"B", "e", "a", "r", "e", "r">>)
HdrBearerSpace == Some(<<"B", "e", "a", "r", "e", "r", " ">>)
HdrBearerTwoSpaces == Some(<<"B", "e", "a", "r", "e", "r", " ", " ", "t">>)
HdrBasicT == Some(<<"B", "a", "s", "i", "c", " ", "t">>)
HdrTokenOnly == Some(<<"t">>)
HdrBearerTX == Some(<<"B", "e", "a", "r", "e", "r", " ", "t", " ", "x">>)

Headers ==
    {Undefined, HdrBearerT, HdrLowerBearerT, HdrBearerOnly, HdrBearerSpace,
     HdrBearerTwoSpaces, HdrBasicT, HdrTokenOnly, HdrBearerTX}

NoQuery == [folderId |-> Undefined, pageSize |-> Undefined, nextPageToken |-> Undefined]

NoObj ==
    [filePath |-> Undefined, fileName |-> Undefined, parentFolderId |-> Undefined,
     parentFolderName |-> Undefined, conflictBehavior |-> Undefined,
     outputPath |-> Undefined]

RawBody(kind) == [kind |-> kind, obj |-> NoObj]

Request(method, url, authorization, query, body) ==
    [method |-> method, url |-> url, authorization |-> authorization,
     query |-> query, body |-> body]

X1 == <<"X", "1">>
LocalF == <<"/", "f">>
LocalMissing == <<"/", "x">>
FolderA == <<"a">>
FolderMissing == <<"x">>
FolderSlashes == <<"/", "a", "/", "/", "b">>

UploadObject(fp, pf) ==
    [kind |-> "object", obj |-> [NoObj EXCEPT !.filePath = fp, !.parentFolderName = pf]]

UploadBodies ==
    {RawBody("empty"), RawBody("malformed"), RawBody("null")}
    \cup {[kind |-> "object",
           obj |-> [NoObj EXCEPT !.filePath = fp, !.parentFolderName = pf,
                                 !.conflictBehavior = cb]] :
            fp \in {Undefined, Some(LocalF), Some(LocalMissing)},
            pf \in {Undefined, Some(FolderA), Some(FolderMissing), Some(FolderSlashes)},
            cb \in {Undefined, Some("fail")}}

\* The bodies sent under every header; the other bodies go with a valid one.
UploadProbes ==
    {RawBody("empty"), RawBody("malformed"), UploadObject(Undefined, Undefined),
     UploadObject(Some(LocalF), Undefined)}

DownloadBodies ==
    {RawBody("empty"), RawBody("malformed")}
    \cup {[kind |-> "object",
           obj |-> [NoObj EXCEPT !.outputPath = op, !.fileName = fn]] :
            op \in {Undefined, Some(<<"/", "o">>)},
            fn \in {Undefined, Some(<<"a", "b">>)}}

ListQueries ==
    {[folderId |-> f, pageSize |-> ps, nextPageToken |-> Undefined] :
        f \in {Undefined, Some(F1)}, ps \in {Undefined, Some(0), Some(2)}}

ListRequests ==
    {Request("GET", PathApiFiles, h, NoQuery, RawBody("empty")) : h \in Headers}
    \cup {Request("GET", PathApiFiles, HdrBearerT, q, RawBody("empty")) : q \in ListQueries}

IdRequests ==
    {Request(m, PathApiFilesSlash \o id, h, NoQuery, RawBody("empty")) :
        m \in {"GET", "DELETE"}, id \in {X1, <<>>}, h \in Headers}
    \cup {Request("GET", PathApiFilesSlash \o id, HdrBearerT, NoQuery, RawBody("empty")) :
            id \in ObjectPrototypeKeys}

UploadRequests ==
    {Request("POST", PathApiFiles, h, NoQuery, b) : h \in Headers, b \in UploadProbes}
    \cup {Request("POST", PathApiFiles, HdrBearerT, NoQuery, b) : b \in UploadBodies}

DownloadRequests ==
    {Request("POST", PathApiFilesSlash \o D1 \o PathDownloadSuffix, h, NoQuery, b) :
        h \in Headers, b \in {RawBody("empty"), RawBody("malformed")}}
    \cup {Request("POST", PathApiFilesSlash \o id \o PathDownloadSuffix, HdrBearerT,
                  NoQuery, b) : id \in {D1, <<>>}, b \in DownloadBodies}

OtherRequests ==
    {Request("OPTIONS", PathApiFiles, Undefined, NoQuery, RawBody("empty")),
     Request("GET", <<"/", "o">>, HdrBearerT, NoQuery, RawBody("empty")),
     Request("POST", PathApiFilesSlash \o X1, HdrBearerT, NoQuery, RawBody("empty"))}

\* The requests of the push-channel specification: the mutating routes.
PushRequests ==
    {Request("POST", PathApiFiles, HdrBearerT, NoQuery, UploadObject(Some(LocalF), Undefined)),
     Request("POST", PathApiFiles, HdrBearerT, NoQuery,
             UploadObject(Some(LocalF), Some(FolderMissing))),
     Request("POST", PathApiFiles, Undefined, NoQuery, UploadObject(Some(LocalF), Undefined)),
     Request("DELETE", PathApiFilesSlash \o X1, HdrBearerT, NoQuery, RawBody("empty")),
     Request("DELETE", PathApiFilesSlash \o KeyToString, HdrBearerT, NoQuery,
             RawBody("empty"))}

(***************************************************************************)
(* The uploadFile tool of registerFileTools: the input is validated        *)
(* against the tool's shape, then the handler calls the facade.            *)
(***************************************************************************)
ConflictBehaviors == {"fail", "replace", "rename"}

\* z.object(shape).safeParse(input).success for the uploadFile tool
UploadToolValid(input) ==
    /\ input.accessToken # Undefined
    /\ input.conflictBehavior = Undefined \/ input.conflictBehavior[1] \in ConflictBehaviors

\* The tool handler after the facade call.
ToolUploadRespond(result) ==
    IF result.ok
    THEN [ok |-> TRUE, facade |-> 1, calls |-> result.calls,
          value |-> [content |-> "text",
                     metadata |-> [fileId |-> result.value.id,
                                   webUrl |-> result.value.webUrl,
                                   fileName |-> result.value.name,
                                   fileSize |-> result.value.size,
                                   mimeType |-> result.value.mimeType]]]
    ELSE [ok |-> FALSE, kind |-> "thrown", facade |-> 1, calls |-> result.calls,
          msg |-> <<"Failed to upload file">> \o result.msg]

uploadFileTool(input, failAt) ==
    IF ~UploadToolValid(input)
    THEN [ok |-> FALSE, kind |-> "invalid", facade |-> 0, calls |-> <<>>, msg |-> <<>>]
    ELSE ToolUploadRespond(
             \* the shape has no parentFolderId: the parsed input carries none
             uploadFile([input EXCEPT !.parentFolderId = Undefined,
                                      !.conflictBehavior =
                                          IF @ = Undefined THEN Some("rename") ELSE @],
                        failAt))

(***************************************************************************)
(* The listFiles tool: the input is validated against listFilesSchema's    *)
(* shape, then the handler calls the facade.                               *)
(***************************************************************************)
MaxPageSizeTool == 200

\* z.object(listFilesSchema.shape).safeParse(input).success
ListToolValid(input) ==
    /\ input.accessToken # Undefined
    /\ input.accessToken[1] # <<>>
    /\ input.pageSize = Undefined
          \/ (input.pageSize[1] > 0 /\ input.pageSize[1] <= MaxPageSizeTool)

\* The tool handler after the facade call.
ToolListRespond(result) ==
    IF result.ok
    THEN [ok |-> TRUE, facade |-> 1, calls |-> result.calls,
          value |-> [content |-> "text",
                     metadata |-> IF Len(result.items) = 0 THEN Undefined
                                  ELSE Some([nextPageToken |-> result.nextPageToken,
                                             itemCount |-> Len(result.items)])]]
    ELSE [ok |-> FALSE, kind |-> "thrown", facade |-> 1, calls |-> result.calls,
          msg |-> <<"Failed to list files">> \o result.msg]

listFilesTool(input, style, onBad, failAt) ==
    IF ~ListToolValid(input)
    THEN [ok |-> FALSE, kind |-> "invalid", facade |-> 0, calls |-> <<>>, msg |-> <<>>]
    ELSE ToolListRespond(
             listFiles([accessToken |-> input.accessToken[1],
                        folderId |-> input.folderId,
                        pageSize |-> IF input.pageSize = Undefined
                                     THEN Some(DefaultPageSize) ELSE input.pageSize,
                        nextPageToken |-> input.nextPageToken],
                       style, onBad, failAt))

(***************************************************************************)
(* The downloadFile tool: the input is validated against the tool's shape, *)
(* then the handler calls the facade.                                      *)
(***************************************************************************)
DownloadToolValid(input) ==
    /\ input.accessToken # Undefined
    /\ input.fileName # Undefined

\* The tool handler after the facade call.
ToolDownloadRespond(result) ==
    IF ~result.ok
    THEN [ok |-> FALSE, kind |-> "thrown", facade |-> 1, calls |-> result.calls,
          msg |-> <<"Failed to download file">> \o result.msg]
    ELSE IF Truthy(result.value.filePath)
    THEN [ok |-> TRUE, facade |-> 1, calls |-> result.calls,
          value |-> [content |-> "text",
                     metadata |-> [fileName |-> result.value.fileName,
                                   filePath |-> result.value.filePath,
                                   mimeType |-> result.value.mimeType]]]
    ELSE [ok |-> TRUE, facade |-> 1, calls |-> result.calls,
          value |-> [content |-> "text",
                     metadata |-> [fileName |-> result.value.fileName,
                                   mimeType |-> result.value.mimeType,
                                   \* Buffer.from(result.content || '', 'base64').length
                                   fileSize |-> IF Truthy(result.value.content)
                                                THEN Len(Base64Decode(result.value.content[1]))
                                                ELSE 0,
                                   content |-> result.value.content]]]

downloadFileTool(input, failAt) ==
    IF ~DownloadToolValid(input)
    THEN [ok |-> FALSE, kind |-> "invalid", facade |-> 0, calls |-> <<>>, msg |-> <<>>]
    ELSE ToolDownloadRespond(downloadFile([input EXCEPT !.accessToken = @[1]], failAt))

\* The page sizes handed to the two list front-ends.
PageSizeProbes ==
    {Undefined} \cup {Some(k) : k \in (0 - 1)..MaxPageSize}
    \cup {Some(MaxPageSizeTool), Some(MaxPageSizeTool + 1),
          Some(MaxPageSizeHttp), Some(MaxPageSizeHttp + 1)}

ListProbeRequests ==
    {Request("GET", PathApiFiles, h,
             [folderId |-> f, pageSize |-> ps, nextPageToken |-> Undefined],
             RawBody("empty")) :
        h \in {Undefined, HdrBearerT}, f \in {Undefined, Some(F1), Some(N1)},
        ps \in PageSizeProbes}

\* GET /api/files with and without a cursor.
PageRequests ==
    {Request("GET", PathApiFiles, h,
             [folderId |-> f, pageSize |-> ps, nextPageToken |-> t],
             RawBody("empty")) :
        h \in {Undefined, HdrBearerT}, f \in {Undefined, Some(F1), Some(F2)},
        ps \in {Undefined} \cup {Some(k) : k \in 1..MaxPageSize},
        t \in {Undefined, Some(SkipTokenFor(0, "sparse")), Some(SkipTokenFor(1, "sparse"))}}

ListToolInputs ==
    {[accessToken |-> t, folderId |-> f, pageSize |-> ps, nextPageToken |-> Undefined] :
        t \in {Undefined, Some(<<>>), Some(<<"t">>)},
        f \in {Undefined, Some(F1), Some(N1)},
        ps \in PageSizeProbes}

(***************************************************************************)
(* The direct invocations the model makes.                                 *)
(***************************************************************************)
FolderPaths == StringsUpTo({"/", "a", "b"}, MaxPathLen)

ResolveInputs == {Undefined} \cup {Some(p) : p \in FolderPaths}

ParentNames ==
    {Undefined, Some(<<>>), Some(<<"/">>), Some(FolderA), Some(FolderMissing),
     Some(FolderSlashes)}

UploadInputs ==
    {[accessToken |-> Some(<<"t">>), filePath |-> fp, fileName |-> fn,
      fileContent |-> fc, parentFolderId |-> Undefined, parentFolderName |-> pf,
      conflictBehavior |-> Undefined] :
        fp \in {Undefined, Some(LocalF), Some(LocalMissing)},
        fn \in {Undefined, Some(<<>>), Some(<<"n">>)},
        fc \in {Undefined, Some(<<>>), Some(<<"Q", "Q", "=", "=">>)},
        pf \in ParentNames}

ToolUploadInputs ==
    {[i EXCEPT !.conflictBehavior = cb] :
        i \in {u \in UploadInputs : u.parentFolderName \in {Undefined, Some(FolderA)}},
        cb \in {Undefined, Some("fail"), Some("bogus")}}
    \cup {[i EXCEPT !.accessToken = Undefined] :
            i \in {u \in UploadInputs : u.parentFolderName = Undefined}}

DownloadInputs ==
    {[accessToken |-> <<"t">>, fileName |-> fn, parentFolderName |-> pf,
      outputPath |-> op] :
        fn \in {Some(<<"a", "b">>), Some(<<"a">>), Some(<<"z">>)},
        pf \in ParentNames,
        op \in {Undefined, Some(<<"/", "o">>), Some(<<"/", "o", ".", "t">>)}}

\* The inputs of uploadFile under every choice of parent, name, content and
\* conflict policy.
UploadOptionInputs ==
    {[accessToken |-> Some(<<"t">>), filePath |-> fp, fileName |-> fn,
      fileContent |-> fc, parentFolderId |-> pid, parentFolderName |-> pf,
      conflictBehavior |-> cb] :
        fp \in {Undefined, Some(LocalF)},
        fn \in {Undefined, Some(<<"n">>)},
        fc \in {Undefined, Some(<<"Q", "g", "=", "=">>)},
        pid \in {Undefined, Some(F2)},
        pf \in {Undefined, Some(FolderA)},
        cb \in {Undefined, Some("fail"), Some("replace"), Some("bogus")}}

UploadOptionRequests ==
    {Request("POST", PathApiFiles, HdrBearerT, NoQuery,
             [kind |-> "object",
              obj |-> [NoObj EXCEPT !.filePath = i.filePath, !.fileName = i.fileName,
                                    !.parentFolderId = i.parentFolderId,
                                    !.parentFolderName = i.parentFolderName,
                                    !.conflictBehavior = i.conflictBehavior]]) :
        i \in {u \in UploadOptionInputs : u.fileContent = Undefined}}

\* The inputs of downloadFile under both ways of addressing the item.
OutputPaths ==
    {Undefined, Some(<<>>), Some(<<"/", "o">>), Some(<<"o">>),
     Some(<<"/", "o", ".", "t">>), Some(<<"/", "d", "/", "o">>)}

DownloadProbes ==
    {[accessToken |-> <<"t">>, fileId |-> id, fileName |-> fn,
      parentFolderName |-> pf, outputPath |-> op] :
        id \in {Undefined, Some(D1), Some(N1), Some(F1)},
        fn \in {Undefined, Some(<<"a", "b">>), Some(<<"a">>), Some(<<"z">>)},
        pf \in {Undefined, Some(FolderA), Some(FolderMissing)},
        op \in OutputPaths}

\* The inputs of the three tools: valid and invalid, with an empty folder
\* among the folders listed.
ToolListCalls ==
    {[accessToken |-> t, folderId |-> f, pageSize |-> ps, nextPageToken |-> Undefined] :
        t \in {Undefined, Some(<<"t">>)},
        f \in {Undefined, Some(F1), Some(F2)},
        ps \in {Undefined, Some(1)}}

ToolDownloadCalls ==
    {[accessToken |-> t, fileName |-> fn, parentFolderName |-> pf, outputPath |-> op] :
        t \in {Undefined, Some(<<"t">>)},
        fn \in {Undefined, Some(<<"a", "b">>), Some(<<"z">>)},
        pf \in {Undefined, Some(FolderA)},
        op \in {Undefined, Some(<<"/", "o">>)}}

(***************************************************************************)
(* SseServer.start: http.Server as an event emitter.  listeners are the    *)
(* events the server has a listener for; occupied are the ports another    *)
(* process holds; settled is the state of the promise start() returned.    *)
(* The handler-level specifications leave the server as constructed and    *)
(* hand requests to the router directly.                                   *)
(***************************************************************************)
DefaultPort == 3002

\* new SseServer(): http.createServer(handler) attaches the request listener.
NewServer ==
    [phase |-> "created", port |-> DefaultPort, listeners |-> {"request"},
     arg |-> 0, trying |-> 0, bound |-> 0, occupied |-> {}, attempts |-> 0,
     code |-> "none",
     settled |-> "pending", value |-> 0, unanswered |-> FALSE]

\* this.server.listen(p, callback).on('error', onError)
Listen(s, p) ==
    [s EXCEPT !.phase = "binding", !.trying = p, !.code = "none",
              !.listeners = @ \cup {"listening", "error"},
              !.attempts = IF @ < MaxAttempts THEN @ + 1 ELSE @]

\* The 'listening' callback: this.port = <the port tried>; resolve(this.port).
OnListening(s) ==
    [s EXCEPT !.phase = "listening", !.bound = s.trying, !.port = s.trying,
              !.listeners = @ \ {"listening"},
              !.settled = IF @ = "pending" THEN "resolved" ELSE @,
              !.value = IF s.settled = "pending" THEN s.trying ELSE @]

\* onError of start(): port is the argument of start(), whatever was tried.
OnError(s, code) ==
    IF code = "EADDRINUSE"
    THEN Listen([s EXCEPT !.listeners = {}], s.arg + 1)
    ELSE [s EXCEPT !.phase = "failed",
                   !.settled = IF @ = "pending" THEN "rejected" ELSE @]

\* start(port = this.port)
start(s, occupied) == Listen([s EXCEPT !.arg = s.port, !.occupied = occupied], s.port)

(***************************************************************************)
(* State and actions.                                                      *)
(***************************************************************************)
NoResp ==
    [req |-> Request("none", <<>>, Undefined, NoQuery, RawBody("empty")),
     failAt |-> 0, status |-> 0, body |-> EmptyBody, calls |-> <<>>, facade |-> 0,
     events |-> <<>>, regBefore |-> {}, regAfter |-> {}, tableChanged |-> FALSE,
     writes |-> <<>>]

NoOut == [op |-> "none"]

NoList == [phase |-> "idle"]

Init ==
    /\ now = 0
    /\ clients = {}
    /\ conns = [c \in Conns |-> [st |-> "free", id |-> -1, log |-> <<>>, broken |-> FALSE,
                                 authorization |-> Undefined]]
    /\ files = <<>>
    /\ bcasts = <<>>
    /\ resp = NoResp
    /\ fout = NoOut
    /\ lst = NoList
    /\ srv = NewServer

\* Date.now() advances.
Tick ==
    /\ now < MaxClock
    /\ now' = now + 1
    /\ UNCHANGED <<clients, conns, files, bcasts, resp, fout, lst, srv>>

\* A connection that is registered without the acknowledgment.
handleSseConnectionNoAck(c, clock, cl, cn) ==
    [clients |-> MapSet(cl, clock, c),
     conns |-> [cn EXCEPT ![c].st = "open", ![c].id = clock]]

\* SseServer.handleSseConnection for the new connection c.
handleSseConnection(c, clock, cl, cn) ==
    [clients |-> MapSet(cl, clock, c),
     conns |-> sendEvent([cn EXCEPT ![c].st = "open", ![c].id = clock], c,
                         "connected", [clientId |-> clock])]

\* GET /events: a new connection is accepted.
SseConnect ==
    /\ \E c \in Conns :
        /\ conns[c].st = "free"
        /\ \A d \in Conns : d < c => conns[d].st # "free"
        /\ clients' = handleSseConnection(c, now, clients, conns).clients
        /\ conns' = handleSseConnection(c, now, clients,
                                        [conns EXCEPT ![c].authorization = HdrBearerT]).conns
    /\ UNCHANGED <<now, files, bcasts, resp, fout, lst, srv>>

\* GET /events under any Authorization header: the router hands the request
\* to handleSseConnection without reading the header.
EventsRequest ==
    /\ \E c \in Conns, h \in {Undefined, HdrBasicT, HdrBearerT} :
        /\ conns[c].st = "free"
        /\ \A d \in Conns : d < c => conns[d].st # "free"
        /\ clients' = handleSseConnection(c, now, clients, conns).clients
        /\ conns' = handleSseConnection(c, now, clients,
                                        [conns EXCEPT ![c].authorization = h]).conns
    /\ UNCHANGED <<now, files, bcasts, resp, fout, lst, srv>>

\* req.on('close'): the handler registered by the connection runs.
SseClose ==
    /\ \E c \in Conns :
        /\ conns[c].st = "open"
        /\ clients' = MapDelete(clients, conns[c].id)
        /\ conns' = [conns EXCEPT ![c].st = "closed"]
    /\ UNCHANGED <<now, files, bcasts, resp, fout, lst, srv>>

\* The environment: writes to an open channel start to fail.
ChannelBreaks ==
    /\ \E c \in Conns :
        /\ conns[c].st = "open" /\ ~conns[c].broken
        /\ conns' = [conns EXCEPT ![c].broken = TRUE]
    /\ UNCHANGED <<now, clients, files, bcasts, resp, fout, lst, srv>>

\* The handler's outcome h: its event, if any, went to sendEventToAll with
\* result b; the response is the handler's, or its catch block's.
HttpRecord(req, failAt, h, b, cl, table) ==
    [req |-> req, failAt |-> failAt,
     status |-> IF b.threw THEN h.caught.status ELSE h.status,
     body |-> IF b.threw THEN h.caught.body ELSE h.body,
     calls |-> h.calls, facade |-> h.facade,
     events |-> IF h.event # Undefined THEN <<h.event[1]>> ELSE <<>>,
     regBefore |-> IF h.event # Undefined THEN cl ELSE {},
     regAfter |-> IF h.event # Undefined THEN b.clients ELSE {},
     tableChanged |-> h.files # table,
     writes |-> IF b.threw THEN ResWrites(h.caught) ELSE h.writes]

HttpOutcome(req, failAt, h, seq, cl, cn, table) ==
    HttpRecord(req, failAt, h,
               IF h.event # Undefined THEN sendEventToAll(h.event[1], seq, cl, cn)
               ELSE [clients |-> cl, conns |-> cn, threw |-> FALSE],
               cl, table)

\* One HTTP request, from the router to the response.  The handlers touch the
\* registry and the item table only after their last await, so the request is
\* one step.
HttpRequest(req, style, onBad, failAt) ==
    /\ resp' = HttpOutcome(req, failAt,
                           handleRequest(req, files, now, style, onBad, failAt),
                           Len(bcasts) + 1, clients, conns, files)
    /\ resp'.events # <<>> => Len(bcasts) < MaxBcasts
    /\ clients' = IF resp'.events # <<>> THEN resp'.regAfter ELSE clients
    /\ conns' = IF resp'.events # <<>>
                THEN sendEventToAll(resp'.events[1], Len(bcasts) + 1, clients, conns).conns
                ELSE conns
    /\ files' = IF resp'.tableChanged
                THEN handleRequest(req, files, now, style, onBad, failAt).files
                ELSE files
    /\ bcasts' = IF resp'.events # <<>>
                 THEN Append(bcasts,
                             [seq |-> Len(bcasts) + 1, event |-> resp'.events[1],
                              registered |-> MapValues(clients),
                              failed |-> {c \in MapValues(clients) : conns[c].broken}])
                 ELSE bcasts
    /\ fout' = NoOut
    /\ UNCHANGED <<now, lst, srv>>

PushRequest == \E req \in PushRequests : HttpRequest(req, "plain", "error", 0)

\* The push server: channels connect, close and break while mutating requests
\* are served.
Next == Tick \/ SseConnect \/ SseClose \/ ChannelBreaks \/ PushRequest

Spec == Init /\ [][Next]_vars

ListRequest ==
    \E req \in ListRequests, style \in {"plain", "reserved"}, failAt \in 0..1 :
        HttpRequest(req, style, "error", failAt)

IdRequest == \E req \in IdRequests \cup OtherRequests : HttpRequest(req, "plain", "error", 0)

UploadRequest ==
    \E req \in UploadRequests, failAt \in 0..MaxFailAt :
        HttpRequest(req, "plain", "error", failAt)

DownloadRequest ==
    \E req \in DownloadRequests, failAt \in 0..MaxFailAt :
        HttpRequest(req, "plain", "error", failAt)

\* The push channel opened under any header, while mutating requests are served.
NextEvents == Tick \/ EventsRequest \/ SseClose \/ PushRequest

SpecEvents == Init /\ [][NextEvents]_vars

\* The HTTP routes under every request of the model, with channels listening.
NextHttp ==
    SseConnect \/ ListRequest \/ IdRequest \/ UploadRequest \/ DownloadRequest

SpecHttp == Init /\ [][NextHttp]_vars

\* The record of a direct invocation and its outcome.
Invocation(op, input, failAt, out) ==
    [op |-> op, input |-> input, failAt |-> failAt, out |-> out]

\* A direct invocation leaves the HTTP front-end alone.
Direct ==
    /\ resp' = NoResp
    /\ UNCHANGED <<now, clients, conns, files, bcasts, lst, srv>>

FacadeResolve ==
    \E p \in ResolveInputs, failAt \in 0..MaxFailAt :
        /\ fout' = Invocation("resolve", p, failAt, resolveFolderId(p, failAt))
        /\ Direct

FacadeUpload ==
    \E input \in UploadInputs, failAt \in 0..MaxFailAt :
        /\ fout' = Invocation("upload", input, failAt, uploadFile(input, failAt))
        /\ Direct

ToolUpload ==
    \E input \in ToolUploadInputs, failAt \in 0..1 :
        /\ fout' = Invocation("uploadTool", input, failAt, uploadFileTool(input, failAt))
        /\ Direct

FacadeDownload ==
    \E input \in DownloadInputs, failAt \in 0..MaxFailAt :
        /\ fout' = Invocation("download", input, failAt, downloadFile(input, failAt))
        /\ Direct

\* The facade called directly.
NextFacade == FacadeResolve \/ FacadeUpload \/ FacadeDownload

SpecFacade == Init /\ [][NextFacade]_vars

\* uploadFile under its three entry points: direct call, tool, HTTP route.
NextUpload == FacadeUpload \/ ToolUpload \/ UploadRequest

SpecUpload == Init /\ [][NextUpload]_vars

\* A caller's pagination loop: the listing so far and the cursor in hand.
ListItems(r) == [i \in 1..Len(r.items) |-> r.items[i].name]

Listed(l, failAt, r) ==
    [l EXCEPT !.phase = IF ~r.ok THEN "failed"
                        ELSE IF Truthy(r.nextPageToken) THEN "more"
                        ELSE "done",
              !.n = @ + 1,
              !.transport = @ \/ failAt = 1,
              !.pages = IF r.ok THEN Append(@, ListItems(r)) ELSE @,
              !.cursor = IF r.ok THEN r.nextPageToken ELSE Undefined,
              !.calls = @ \o r.calls]

ListCallOf(l, failAt) ==
    Listed(l, failAt,
           listFiles([accessToken |-> <<"t">>, folderId |-> l.folderId,
                      pageSize |-> l.pageSize, nextPageToken |-> l.cursor],
                     l.style, l.onBad, failAt))

NewListing(folderId, pageSize, style, onBad) ==
    [phase |-> "idle", folderId |-> folderId, pageSize |-> pageSize,
     style |-> style, onBad |-> onBad, n |-> 0, transport |-> FALSE,
     pages |-> <<>>, cursor |-> Undefined, calls |-> <<>>]

\* listFiles without a cursor.
ListStart ==
    /\ \E folderId \in {Undefined, Some(F1), Some(F2), Some(F3)},
          pageSize \in {Undefined} \cup {Some(k) : k \in 1..MaxPageSize},
          style \in {"plain", "reserved"}, onBad \in {"error", "first"},
          failAt \in 0..1 :
           lst' = ListCallOf(NewListing(folderId, pageSize, style, onBad), failAt)
    /\ UNCHANGED <<now, clients, conns, files, bcasts, resp, fout, srv>>

\* listFiles with the cursor the previous call returned.
ListNext ==
    /\ lst.phase = "more"
    /\ lst.n < MaxListCalls
    /\ \E failAt \in 0..1 : lst' = ListCallOf(lst, failAt)
    /\ UNCHANGED <<now, clients, conns, files, bcasts, resp, fout, srv>>

NextList == ListStart \/ ListNext

SpecList == Init /\ [][NextList]_vars

\* uploadFile under every option, through its three entry points.
OptionCall ==
    \E input \in UploadOptionInputs, failAt \in 0..1 :
        /\ fout' = Invocation("upload", input, failAt, uploadFile(input, failAt))
        /\ Direct

OptionTool ==
    \E input \in UploadOptionInputs, failAt \in {0} :
        /\ fout' = Invocation("uploadTool", input, failAt, uploadFileTool(input, failAt))
        /\ Direct

OptionRequest ==
    \E req \in UploadOptionRequests, failAt \in 0..1 :
        HttpRequest(req, "plain", "error", failAt)

NextOptions == OptionCall \/ OptionTool \/ OptionRequest

SpecOptions == Init /\ [][NextOptions]_vars

\* downloadFile called directly and through POST /api/files/{id}/download.
DownloadCall ==
    \E input \in DownloadProbes, failAt \in 0..MaxFailAt :
        /\ fout' = Invocation("download", input, failAt, downloadFile(input, failAt))
        /\ Direct

NextDownload == DownloadCall \/ DownloadRequest

SpecDownload == Init /\ [][NextDownload]_vars

\* GET /api/files and the listFiles tool under every page size.
ListProbe ==
    \E req \in ListProbeRequests, failAt \in 0..1 :
        HttpRequest(req, "plain", "error", failAt)

ToolList ==
    \E input \in ListToolInputs, failAt \in 0..1 :
        /\ fout' = Invocation("listTool", input, failAt,
                              listFilesTool(input, "plain", "error", failAt))
        /\ UNCHANGED <<now, clients, conns, files, bcasts, resp, lst, srv>>

NextListing == ListProbe \/ ToolList

\* GET /api/files against a remote whose first page is empty.
PageRequest ==
    \E req \in PageRequests, failAt \in 0..1 :
        HttpRequest(req, "sparse", "error", failAt)

NextPages == PageRequest

SpecPages == Init /\ [][NextPages]_vars

SpecListing == Init /\ [][NextListing]_vars

\* The three tools, each under valid and invalid inputs.
ToolListCall ==
    \E input \in ToolListCalls, failAt \in 0..1 :
        /\ fout' = Invocation("listTool", input, failAt,
                              listFilesTool(input, "plain", "error", failAt))
        /\ Direct

ToolDownload ==
    \E input \in ToolDownloadCalls, failAt \in 0..MaxFailAt :
        /\ fout' = Invocation("downloadTool", input, failAt,
                              downloadFileTool(input, failAt))
        /\ Direct

NextTools == ToolListCall \/ ToolUpload \/ ToolDownload

SpecTools == Init /\ [][NextTools]_vars

\* sseServer.start() is called while some of the two ports are held by others.
StartCall ==
    /\ srv.phase = "created"
    /\ \E occupied \in SUBSET {DefaultPort, DefaultPort + 1} : srv' = start(srv, occupied)
    /\ UNCHANGED <<now, clients, conns, files, bcasts, resp, fout, lst>>

\* The pending listen succeeds: the server emits 'listening'.
ListenSucceeds ==
    /\ srv.phase = "binding"
    /\ srv.trying \notin srv.occupied
    /\ srv' = OnListening(srv)
    /\ UNCHANGED <<now, clients, conns, files, bcasts, resp, fout, lst>>

\* The pending listen fails, with EADDRINUSE when the port is held or with
\* another code (e.g. EACCES): an 'error' event is due.
ListenFails ==
    /\ srv.phase = "binding"
    /\ \E code \in {"EADDRINUSE", "EACCES"} :
        /\ code = "EADDRINUSE" <=> srv.trying \in srv.occupied
        /\ srv' = [srv EXCEPT !.phase = "erred", !.code = code]
    /\ UNCHANGED <<now, clients, conns, files, bcasts, resp, fout, lst>>

\* The server emits 'error': onError runs.
ErrorEvent ==
    /\ srv.phase = "erred"
    /\ "error" \in srv.listeners
    /\ srv' = OnError(srv, srv.code)
    /\ UNCHANGED <<now, clients, conns, files, bcasts, resp, fout, lst>>

\* A request arrives at the listening server, which emits 'request'.
Dispatch ==
    /\ srv.phase = "listening"
    /\ "request" \in srv.listeners
    /\ \E req \in ListRequests \cup IdRequests \cup OtherRequests :
           HttpRequest(req, "plain", "error", 0)

\* A request arrives and the server has no listener for 'request'.
Unanswered ==
    /\ srv.phase = "listening"
    /\ "request" \notin srv.listeners
    /\ srv' = [srv EXCEPT !.unanswered = TRUE]
    /\ UNCHANGED <<now, clients, conns, files, bcasts, resp, fout, lst>>

NextStart ==
    StartCall \/ ListenSucceeds \/ ListenFails \/ ErrorEvent \/ Dispatch \/ Unanswered

SpecStart == Init /\ [][NextStart]_vars

\* The event loop delivers the outcome of every pending listen.
SpecStartFair ==
    SpecStart /\ WF_vars(ListenSucceeds) /\ WF_vars(ListenFails) /\ WF_vars(ErrorEvent)

(***************************************************************************)
(* Properties.                                                             *)
(***************************************************************************)
\* The five API routes.
ApiRoute(req) ==
    \/ req.method = "GET" /\ req.url = PathApiFiles
    \/ req.method = "GET" /\ StartsWith(req.url, PathApiFilesSlash)
    \/ req.method = "POST" /\ req.url = PathApiFiles
    \/ req.method = "DELETE" /\ StartsWith(req.url, PathApiFilesSlash)
    \/ req.method = "POST" /\ StartsWith(req.url, PathApiFilesSlash)
                           /\ EndsWith(req.url, PathDownloadSuffix)

\* A header of the form 'Bearer <token>' (the scheme in any case).
BearerForm(authorization) ==
    /\ authorization # Undefined
    /\ Len(authorization[1]) >= 8
    /\ ToLowerCase(SubSeq(authorization[1], 1, 7)) = BearerPrefix
    /\ authorization[1][8] # " "

\* C1: a request to an API route whose Authorization header is absent or not
\* of the form 'Bearer <token>' is answered with 401 and causes no facade
\* call, no remote call, no change to the item table and no broadcast.
C1_UnauthorizedIs401 ==
    (ApiRoute(resp.req) /\ ~BearerForm(resp.req.authorization))
        => /\ resp.status = 401
           /\ resp.facade = 0
           /\ resp.calls = <<>>
           /\ ~resp.tableChanged
           /\ resp.events = <<>>

\* The writes of broadcast i made to channel c, and those that went through.
BroadcastWrites(c, i) ==
    {k \in 1..Len(conns[c].log) :
        /\ "seq" \in DOMAIN conns[c].log[k].msg
        /\ conns[c].log[k].msg.seq = i}

Delivered(c, i) == \E k \in BroadcastWrites(c, i) : conns[c].log[k].ok

\* The last request was an upload or a delete, and it succeeded.
MutationSucceeded ==
    \/ resp.req.method = "POST" /\ resp.req.url = PathApiFiles /\ resp.status = 201
    \/ resp.req.method = "DELETE" /\ resp.status = 200

\* C2: when a mutating request succeeds, one event carrying the affected
\* item's identifier is written exactly once to each channel registered at
\* that moment, and never to a channel that registers afterwards.
C2_OneEventPerRegisteredChannel ==
    /\ MutationSucceeded
           => /\ Len(resp.events) = 1
              /\ bcasts # <<>>
              /\ bcasts[Len(bcasts)].event = resp.events[1]
              /\ resp.status = 201
                     => /\ resp.events[1].type = "file_created"
                        /\ resp.events[1].data.id = resp.body.data[1].id
              /\ resp.status = 200
                     => /\ resp.events[1].type = "file_deleted"
                        /\ resp.events[1].data.id = LastSegment(resp.req.url)
    /\ \A i \in 1..Len(bcasts) : \A c \in Conns :
           /\ Cardinality(BroadcastWrites(c, i))
                  = IF c \in bcasts[i].registered THEN 1 ELSE 0
           /\ \A k \in BroadcastWrites(c, i) :
                  conns[c].log[k].msg.event = bcasts[i].event

\* A broadcast reached its registered channel, and a channel that connected
\* after it has received nothing of it.
W_C2 ==
    \E i \in 1..Len(bcasts) : \E c, d \in Conns :
        /\ c \in bcasts[i].registered
        /\ Delivered(c, i)
        /\ conns[d].st = "open"
        /\ conns[d].id > bcasts[i].event.timestamp
        /\ conns[d].log # <<>>
        /\ BroadcastWrites(d, i) = {}

\* C3: a failed write of a broadcast removes only that channel from the
\* registry; the other registered channels receive the event and stay
\* registered, and the triggering request gets its success response.
C3_FailedWriteEvictsOnlyThatChannel ==
    /\ \A i \in 1..Len(bcasts) :
           \A c \in bcasts[i].registered \ bcasts[i].failed : Delivered(c, i)
    /\ resp.events # <<>>
           => /\ resp.regAfter
                    = {p \in resp.regBefore : p[2] \notin bcasts[Len(bcasts)].failed}
              /\ resp.status \in {200, 201}
              /\ resp.body.status \in {"success", "none"}

W_C3 ==
    /\ resp.events # <<>>
    /\ resp.status = 201
    /\ bcasts[Len(bcasts)].failed # {}
    /\ bcasts[Len(bcasts)].registered \ bcasts[Len(bcasts)].failed # {}
    /\ Cardinality(resp.regAfter) = 1

\* C4: the registry holds exactly one entry per open push connection, each
\* under its own identifier, and a close removes that connection's entry only
\* (channels evicted after a failed write aside).
C4_OneEntryPerOpenConnection ==
    /\ \A c \in Conns :
           (conns[c].st = "open" /\ ~conns[c].broken) => <<conns[c].id, c>> \in clients
    /\ \A c, d \in Conns :
           (c # d /\ conns[c].st = "open" /\ conns[d].st = "open")
               => conns[c].id # conns[d].id
    /\ \A p \in clients : conns[p[2]].st = "open" /\ conns[p[2]].id = p[1]

\* A path with its empty segments removed.
WithoutEmptySegments(p) == Join(FilterBoolean(Split(p, "/")), "/")

\* Same folder or same failing segment, and the same remote queries.
SameResolution(x, y) ==
    /\ x.ok = y.ok
    /\ x.calls = y.calls
    /\ x.ok => x.id = y.id
    /\ ~x.ok => /\ Len(x.msg) = Len(y.msg)
                /\ x.msg[3] = y.msg[3]
                /\ Len(x.msg) = 5 => x.msg[4] = y.msg[4]

\* C5: resolving a path gives the same outcome and the same remote queries as
\* resolving it with its empty segments removed.
C5_EmptySegmentsIgnored ==
    (fout.op = "resolve" /\ fout.input # Undefined)
        => SameResolution(fout.out,
                          resolveFolderId(Some(WithoutEmptySegments(fout.input[1])),
                                          fout.failAt))

W_C5 ==
    /\ fout.op = "resolve"
    /\ fout.input # Undefined
    /\ WithoutEmptySegments(fout.input[1]) # fout.input[1]
    /\ fout.out.ok
    /\ fout.out.id = Some(F3)
    /\ Len(fout.out.calls) = 2

\* C6: an empty or absent folder path resolves to "use root" without a remote
\* call; an upload or a download by name given such a path addresses the
\* root-relative location.
C6_EmptyPathIsRoot ==
    /\ (fout.op = "resolve" /\ ~Truthy(fout.input))
           => fout.out.ok /\ fout.out.id = Undefined /\ fout.out.calls = <<>>
    /\ (fout.op \in {"upload", "download"} /\ ~Truthy(fout.input.parentFolderName))
           => /\ \A k \in 1..Len(fout.out.calls) :
                     /\ fout.out.calls[k].op # "children"
                     /\ fout.out.calls[k].op \in {"put", "getByPath"}
                            => fout.out.calls[k].parent = Undefined
              /\ fout.out.ok => fout.out.calls # <<>>

W_C6 ==
    /\ fout.op = "upload"
    /\ fout.input.parentFolderName = Some(<<>>)
    /\ fout.out.ok
    /\ fout.out.calls[1].op = "put"
    /\ fout.out.calls[1].parent = Undefined

Lacking(input) ==
    ~Truthy(input.filePath) /\ ~(Truthy(input.fileName) /\ Truthy(input.fileContent))

ValidationMessages ==
    {"File name is required when filePath is not provided",
     "File content is required when filePath is not provided"}

ResolutionFailed(calls, failAt) ==
    \E k \in 1..Len(calls) :
        /\ calls[k].op = "children"
        /\ k = failAt \/ ChildFolders(calls[k].parent, calls[k].name) = <<>>

\* C9: when parentFolderName does not resolve, the upload fails with that
\* error: no content PUT, no file_created event, an error response.
C9_UnresolvedFolderAbortsUpload ==
    (resp.req.method = "POST" /\ resp.req.url = PathApiFiles
     /\ ResolutionFailed(resp.calls, resp.failAt))
        => /\ \A k \in 1..Len(resp.calls) : resp.calls[k].op # "put"
           /\ resp.events = <<>>
           /\ resp.status = 500
           /\ resp.body.status = "error"

W_C9 ==
    /\ resp.req.method = "POST"
    /\ resp.req.url = PathApiFiles
    /\ resp.req.body.obj.parentFolderName = Some(FolderMissing)
    /\ resp.failAt = 0
    /\ ResolutionFailed(resp.calls, 0)
    /\ resp.status = 500
    /\ clients # {}

RECURSIVE Flatten(_)
Flatten(pages) == IF pages = <<>> THEN <<>> ELSE pages[1] \o Flatten(Tail(pages))

\* The names of the listed folder's children, in ascending order.
SortedChildren(l) ==
    [i \in 1..Len(Drive[IF Truthy(l.folderId) THEN l.folderId[1] ELSE Root]) |->
        SortByName(Drive[IF Truthy(l.folderId) THEN l.folderId[1] ELSE Root])[i].name]

PageSizeOf(l) == IF l.pageSize = Undefined THEN DefaultPageSize ELSE l.pageSize[1]

\* The calls a listing of n items takes.
CallsNeeded(n, pageSize) == IF n = 0 THEN 1 ELSE (n + pageSize - 1) \div pageSize

\* C10: listing without a cursor and then with each returned cursor until
\* none is returned terminates and yields every child once, in ascending
\* name order, at most pageSize items per page.
C10_PaginationYieldsEveryChildOnce ==
    (lst.phase # "idle" /\ ~lst.transport)
        => /\ lst.phase # "failed"
           /\ lst.n <= CallsNeeded(Len(SortedChildren(lst)), PageSizeOf(lst))
           /\ \A k \in 1..Len(lst.pages) : Len(lst.pages[k]) <= PageSizeOf(lst)
           /\ Len(Flatten(lst.pages)) <= Len(SortedChildren(lst))
           /\ Flatten(lst.pages)
                  = SubSeq(SortedChildren(lst), 1, Len(Flatten(lst.pages)))
           /\ lst.phase = "done" => Flatten(lst.pages) = SortedChildren(lst)

\* The cursor the remote embedded in the link that answered call k of the
\* listing l, as the text of the link carries it.
EmbeddedCursor(l, k) ==
    MatchSkipToken(RemoteList(l.calls[k], l.style, l.onBad).nextLink)

\* C11: the skip token that reaches the remote on a follow-up listFiles call
\* is the value the remote embedded in the previous response's continuation
\* link, neither encoded nor decoded on the way.
C11_CursorForwardedUnchanged ==
    (lst.phase # "idle" /\ ~lst.transport)
        => \A k \in 2..Len(lst.calls) :
               /\ lst.calls[k].skiptoken = EmbeddedCursor(lst, k - 1)
               /\ FormDecode(lst.calls[k].skiptoken[1])
                      = FormDecode(EmbeddedCursor(lst, k - 1)[1])

\* A page size of zero or less.
NotPositive(pageSize) == pageSize # Undefined /\ pageSize[1] <= 0

\* C12: a list request with pageSize 0 or negative is rejected by the schema
\* validation with an error and no remote call, by GET /api/files and by the
\* listFiles tool.
C12_NonPositivePageSizeRejected ==
    /\ (resp.req.method = "GET" /\ resp.req.url = PathApiFiles
           /\ BearerForm(resp.req.authorization)
           /\ NotPositive(resp.req.query.pageSize))
          => /\ resp.status = 400
             /\ resp.body.status = "error"
             /\ resp.facade = 0
             /\ resp.calls = <<>>
    /\ (fout.op = "listTool" /\ NotPositive(fout.input.pageSize))
          => /\ ~fout.out.ok
             /\ fout.out.kind = "invalid"
             /\ fout.out.facade = 0
             /\ fout.out.calls = <<>>

\* The tool has refused a page size of zero or less after GET /api/files
\* refused one.
W_C12 ==
    /\ fout.op = "listTool" /\ NotPositive(fout.input.pageSize)
    /\ fout.input.accessToken = Some(<<"t">>)
    /\ ~fout.out.ok
    /\ resp.req.method = "GET" /\ NotPositive(resp.req.query.pageSize)
    /\ resp.req.authorization = HdrBearerT
    /\ resp.status = 400

\* A successful direct download.
Downloaded == fout.op = "download" /\ fout.out.ok

\* C13: a downloadFile result carries exactly one of content and file path:
\* the content and no file path when no output path is given, the absolute
\* saved path and no content when one is given.
C13_ContentOrFilePath ==
    Downloaded
        => IF Truthy(fout.input.outputPath)
           THEN /\ fout.out.value.content = Undefined
                /\ fout.out.value.filePath # Undefined
                /\ fout.out.value.filePath[1][1] = "/"
                /\ fout.out.fsOps # <<>>
           ELSE /\ fout.out.value.content # Undefined
                /\ fout.out.value.filePath = Undefined
                /\ fout.out.fsOps = <<>>

\* A download given a relative output path was saved.
W_C13 ==
    /\ Downloaded
    /\ fout.input.outputPath = Some(<<"o">>)
    /\ fout.out.value.filePath = Some(<<"/", "o", "/", "a", "b">>)
    /\ fout.out.value.content = Undefined

\* The items of the drive with the identifier id.
ItemsWithId(id) ==
    UNION {{Drive[p][i] : i \in {j \in DOMAIN Drive[p] : Drive[p][j].id = id}} :
           p \in DOMAIN Drive}

\* The items a download input addresses: the one with the identifier when one
\* is given, else those with the file name under the resolved parent.
Addressed(input, failAt) ==
    IF Truthy(input.fileId) THEN ItemsWithId(input.fileId[1])
    ELSE IF input.fileName = Undefined
            \/ ~ResolveParent(input.parentFolderName, failAt).ok
    THEN {}
    ELSE {it \in Range(ChildByName(ResolveParent(input.parentFolderName, failAt).id,
                                   encodeURIComponent(input.fileName[1]))) : TRUE}

\* The cause a failed download reports, after the file name.
NotFoundMessage(msg) ==
    Len(msg) >= 3 /\ msg[3] \in {"File not found", "itemNotFound"}

\* C14: downloadFile fails with a not-found error, fetching no content,
\* writing no local file and returning no content, when the addressed item
\* does not exist or is a folder, addressed by identifier or by name.
C14_MissingOrFolderIsNotFound ==
    (/\ fout.op = "download"
     /\ Truthy(fout.input.fileId) \/ fout.input.fileName # Undefined
     /\ ResolveParent(fout.input.parentFolderName, fout.failAt).ok
     /\ fout.failAt = 0
     /\ \A it \in Addressed(fout.input, fout.failAt) : it.folder)
        => /\ ~fout.out.ok
           /\ NotFoundMessage(fout.out.msg)
           /\ \A k \in DOMAIN fout.out.calls : fout.out.calls[k].op # "content"
           /\ fout.out.fsOps = <<>>

\* Whether the last segment of a path has an extension.
HasExtension(p) ==
    \E i \in 2..Len(p) :
        /\ p[i] = "."
        /\ p[i - 1] # "/"
        /\ \A j \in i..Len(p) : p[j] # "/"

\* The file a saved download is to be written to.
SaveTarget(outputPath, name) ==
    IF HasExtension(outputPath) THEN outputPath
    ELSE outputPath \o <<"/">> \o name

\* C15: a saved download is written to outputPath/<name> when the output
\* path has no extension (the explicit file name if given, else the item's
\* name) and to the output path itself when it has one; the parent
\* directories are created first, existing ones being no error.
C15_SaveTarget ==
    (Downloaded /\ Truthy(fout.input.outputPath))
        => /\ Len(fout.out.fsOps) = 2
           /\ fout.out.fsOps[1].op = "mkdir"
           /\ fout.out.fsOps[1].recursive
           /\ fout.out.fsOps[1].path = Dirname(fout.out.fsOps[2].path)
           /\ fout.out.fsOps[2].op = "writeFile"
           /\ fout.out.fsOps[2].path
                  = SaveTarget(fout.input.outputPath[1],
                               IF Truthy(fout.input.fileName) THEN fout.input.fileName[1]
                               ELSE fout.out.value.fileName)
           /\ fout.out.fsOps[2].data = DriveContent[D1]

\* A download was saved under a directory, and one to an exact file.
W_C15 ==
    /\ Downloaded
    /\ fout.input.outputPath = Some(<<"/", "d", "/", "o">>)
    /\ fout.out.fsOps[2].path = <<"/", "d", "/", "o", "/", "a", "b">>
    /\ fout.out.fsOps[1].path = <<"/", "d", "/", "o">>

\* The content requests of a download.
ContentRequests(out) ==
    {out.calls[k].id : k \in {j \in DOMAIN out.calls : out.calls[j].op = "content"}}

\* C16: downloadFile by file name downloads the file of that name under the
\* resolved parent; given a file identifier it downloads the item with that
\* identifier, also when a file name is supplied as well.
C16_BothAddressingModes ==
    (/\ fout.op = "download"
     /\ fout.failAt = 0
     /\ \E it \in Addressed(fout.input, 0) : ~it.folder)
        => /\ fout.out.ok
           /\ ContentRequests(fout.out)
                  = {it.id : it \in Addressed(fout.input, 0)}

\* The content PUTs among the remote calls of an invocation or a request.
Puts(calls) == {calls[k] : k \in {j \in DOMAIN calls : calls[j].op = "put"}}

UploadInvoked == fout.op \in {"upload", "uploadTool"}

UploadServed == resp.req.method = "POST" /\ resp.req.url = PathApiFiles

\* C17: uploadFile given a parentFolderId uploads under that folder, also
\* when a parentFolderName is given as well, and POST /api/files passes the
\* parentFolderId of its body.
C17_ParentFolderIdAddressesUpload ==
    /\ (fout.op = "upload" /\ Truthy(fout.input.parentFolderId))
          => \A c \in Puts(fout.out.calls) : c.parent = fout.input.parentFolderId
    /\ (UploadServed /\ Truthy(resp.req.body.obj.parentFolderId))
          => \A c \in Puts(resp.calls) : c.parent = resp.req.body.obj.parentFolderId

\* The name and the bytes uploadFile is to send for an input.
ExpectedName(input) ==
    IF Truthy(input.filePath) /\ ~Truthy(input.fileName)
    THEN Basename(input.filePath[1])
    ELSE input.fileName[1]

ExpectedBytes(input) ==
    IF Truthy(input.filePath) THEN Disk[PathResolve(input.filePath[1])]
    ELSE Base64Decode(input.fileContent[1])

\* C18: with a filePath the bytes uploaded are the local file's, whatever
\* fileContent says, under the explicit fileName if one is given and the
\* basename of filePath otherwise; without a filePath the caller's fileName
\* and fileContent are uploaded as given.
C18_UploadedNameAndBytes ==
    UploadInvoked
        => \A c \in Puts(fout.out.calls) :
               /\ FormDecode(c.name) = ExpectedName(fout.input)
               /\ c.body = ExpectedBytes(fout.input)

\* A local file was uploaded under its basename although other content was
\* supplied with it.
W_C18 ==
    /\ fout.op = "upload"
    /\ fout.out.ok
    /\ fout.input.filePath = Some(LocalF)
    /\ fout.input.fileName = Undefined
    /\ fout.input.fileContent = Some(<<"Q", "g", "=", "=">>)
    /\ \E c \in Puts(fout.out.calls) : c.body = <<65>> /\ c.name = <<"f">>

\* The conflict policy an upload is to send.
ExpectedPolicy(conflictBehavior) ==
    IF conflictBehavior = Undefined THEN "rename" ELSE conflictBehavior[1]

\* C19: the conflict policy sent with every upload is one of fail, replace
\* and rename and is the caller's; 'rename' is sent when the caller gave
\* none, through the tool and through POST /api/files.
C19_ConflictPolicySent ==
    /\ UploadInvoked
          => \A c \in Puts(fout.out.calls) :
                 /\ c.conflictBehavior \in ConflictBehaviors
                 /\ c.conflictBehavior = ExpectedPolicy(fout.input.conflictBehavior)
    /\ UploadServed
          => \A c \in Puts(resp.calls) :
                 /\ c.conflictBehavior \in ConflictBehaviors
                 /\ c.conflictBehavior
                        = ExpectedPolicy(resp.req.body.obj.conflictBehavior)

\* The broadcasts that preceded the response in hand.
EarlierBroadcasts ==
    1..(IF resp.events # <<>> THEN Len(bcasts) - 1 ELSE Len(bcasts))

\* C20: once DELETE /api/files/{id} has succeeded for an identifier, a
\* second DELETE of that identifier is answered 404, changes no state and
\* broadcasts no second file_deleted event.
C20_SecondDeleteIsNotFound ==
    (/\ resp.req.method = "DELETE"
     /\ BearerForm(resp.req.authorization)
     /\ \E i \in EarlierBroadcasts :
            /\ bcasts[i].event.type = "file_deleted"
            /\ bcasts[i].event.data.id = LastSegment(resp.req.url))
        => /\ resp.status = 404
           /\ resp.events = <<>>
           /\ ~resp.tableChanged
           /\ resp.regAfter = resp.regBefore

\* The writes to channel c that carry a broadcast.
BroadcastsOn(c) ==
    {k \in DOMAIN conns[c].log : "event" \in DOMAIN conns[c].log[k].msg}

\* C21: a push connection opened without a valid 'Authorization: Bearer
\* <token>' header is never in the client registry and never receives a
\* broadcast event.
C21_PushChannelNeedsBearer ==
    \A c \in Conns :
        (conns[c].st # "free" /\ ~BearerForm(conns[c].authorization))
            => /\ <<conns[c].id, c>> \notin clients
               /\ BroadcastsOn(c) = {}

\* C22: on a push channel the 'connected' acknowledgment with the assigned
\* identifier is written first, and everything written after it is the
\* broadcast of a mutating event.
C22_AckFirstThenBroadcasts ==
    \A c \in Conns :
        conns[c].st # "free"
            => /\ Len(conns[c].log) >= 2
               /\ conns[c].log[1].msg = [line |-> "event", type |-> "connected"]
               /\ conns[c].log[2].msg = [line |-> "data", type |-> "connected",
                                         data |-> [clientId |-> conns[c].id]]
               /\ \A k \in 3..Len(conns[c].log) :
                      /\ k \in BroadcastsOn(c)
                      /\ conns[c].log[k].msg.event.type \in {"file_created", "file_deleted"}
                      /\ \E i \in DOMAIN bcasts :
                             bcasts[i].event = conns[c].log[k].msg.event

\* A channel has received its acknowledgment and then two broadcasts.
W_C22 ==
    \E c \in Conns :
        /\ Len(conns[c].log) = 4
        /\ conns[c].log[3].msg.event.type = "file_created"
        /\ conns[c].log[4].msg.event.type = "file_deleted"

\* A body of the form {status: "success", data, ...} or {status: "error", error, ...}.
Envelope(body) ==
    /\ body.kind = "json"
    /\ \/ body.status = "success" /\ {"status", "data"} \subseteq body.keys
       \/ body.status = "error" /\ {"status", "error"} \subseteq body.keys

\* C23: every HTTP response that has a body, on every route and outcome,
\* carries a JSON envelope whose status is "success" with a data field or
\* "error" with an error field.
C23_EveryBodyIsEnvelope ==
    (resp.status # 0 /\ resp.body.kind # "empty") => Envelope(resp.body)

\* C24: every successful invocation of the listFiles, uploadFile or
\* downloadFile tool, a listing of zero items included, returns a text block
\* and a metadata object.
C24_TextAndMetadata ==
    (fout.op \in {"listTool", "uploadTool", "downloadTool"} /\ fout.out.ok)
        => /\ fout.out.value.content = "text"
           /\ IF fout.op = "listTool" THEN fout.out.value.metadata # Undefined
              ELSE "metadata" \in DOMAIN fout.out.value

\* The folders of the remote drive under parent that have the given name, in
\* the order the remote returns them.
FoldersNamed(parent, name) ==
    IF parent \in DOMAIN Drive
    THEN SelectSeq(Drive[parent], LAMBDA it : it.folder /\ it.name = name)
    ELSE <<>>

\* C25: resolving a path issues one query per non-empty segment, in order;
\* query k lists the folders named segment k under the root (k = 1) or under
\* the first match of query k - 1; a completed resolution has queried every
\* segment and returns the first match of the last query.
C25_OneQueryPerSegment ==
    (fout.op = "resolve" /\ Truthy(fout.input))
        => /\ Len(fout.out.calls) <= Len(FilterBoolean(Split(fout.input[1], "/")))
           /\ \A k \in 1..Len(fout.out.calls) :
                  /\ fout.out.calls[k].op = "children"
                  /\ fout.out.calls[k].name = FilterBoolean(Split(fout.input[1], "/"))[k]
                  /\ fout.out.calls[k].parent =
                         IF k = 1 THEN Root
                         ELSE FoldersNamed(fout.out.calls[k - 1].parent,
                                           fout.out.calls[k - 1].name)[1].id
           /\ fout.out.ok
                  => /\ Len(fout.out.calls) = Len(FilterBoolean(Split(fout.input[1], "/")))
                     /\ fout.out.calls # <<>>
                            => fout.out.id =
                                   Some(FoldersNamed(
                                            fout.out.calls[Len(fout.out.calls)].parent,
                                            fout.out.calls[Len(fout.out.calls)].name)[1].id)

\* The path a/b has been resolved: the second query returned two folders
\* named b and the first one's identifier is the result.
W_C25 ==
    /\ fout.op = "resolve"
    /\ fout.input = Some(<<"a", "/", "b">>)
    /\ fout.out.ok
    /\ Len(fout.out.calls) = 2
    /\ Len(FoldersNamed(F1, <<"b">>)) = 2
    /\ fout.out.id = Some(F3)

\* An authenticated GET or DELETE of /api/files/{id} with a non-empty id.
ItemRequest(req) ==
    /\ req.method \in {"GET", "DELETE"}
    /\ StartsWith(req.url, PathApiFilesSlash)
    /\ LastSegment(req.url) # <<>>
    /\ getAccessTokenFromHeader(req.authorization) # Undefined

\* C26: the item table has no entry in any reachable state, every
\* authenticated GET or DELETE of /api/files/{id} is answered 404, and no
\* file_deleted event is broadcast.
C26_ItemTableEmpty ==
    /\ DOMAIN files = {}
    /\ ItemRequest(resp.req) => resp.status = 404
    /\ \A i \in DOMAIN bcasts : bcasts[i].event.type # "file_deleted"

\* The cursor the facade returned to handleListFiles for the response in hand,
\* under the remote of SpecPages.
FacadeCursor ==
    listFiles([accessToken |-> getAccessTokenFromHeader(resp.req.authorization)[1],
               folderId |-> resp.req.query.folderId,
               pageSize |-> IF resp.req.query.pageSize = Undefined
                            THEN Some(DefaultPageSize) ELSE resp.req.query.pageSize,
               nextPageToken |-> resp.req.query.nextPageToken],
              "sparse", "error", resp.failAt).nextPageToken

\* C27: in a successful GET /api/files response has_more is true and
\* next_page_token is present exactly when the facade returned a cursor, a
\* page of zero items included.
C27_HasMoreIffCursor ==
    (resp.req.method = "GET" /\ resp.req.url = PathApiFiles /\ resp.status = 200)
        => /\ resp.body.data[1].pagination.has_more = (FacadeCursor # Undefined)
           /\ (resp.body.data[1].pagination.next_page_token # Undefined)
                  = (FacadeCursor # Undefined)

\* start() has fallen back to the next port and the server listens there.
FellBack == srv.phase = "listening" /\ srv.bound = srv.arg + 1

\* C28: after start() has fallen back to the next port the server still has
\* its request listener, so that requests reach the router, and start() has
\* resolved with the port that is bound.
C28_FallbackServes ==
    FellBack => /\ "request" \in srv.listeners
                /\ ~srv.unanswered
                /\ srv.settled = "resolved"
                /\ srv.value = srv.bound

\* C29: once called, start() settles (resolves or rejects), whichever of the
\* two ports are held by other processes.
C29_StartSettles == (srv.phase # "created") ~> (srv.settled # "pending")

====
